---- MODULE Spec2Model ----
(***************************************************************************)
(* Resumable orchestrator of the SVS de-identification pipeline            *)
(* (src/src/svs_deid_pipeline/pipeline.py, run_pipeline) together with the *)
(* collaborators whose outcome decides its control flow: the               *)
(* copy-and-redact worker (deidentification.py, deidentify_one), the       *)
(* checksum utility (utils.py, md5_checksum), the upload collaborator      *)
(* (s3.py, upload_file_to_s3) and the metadata record generator            *)
(* (submission.py, generate_metadata_file_record).                         *)
(*                                                                         *)
(* The state is the output directory on disk (status.csv, s3_manifest.csv, *)
(* run.json, the redacted files), the local variables of the running       *)
(* invocation of run_pipeline, and history variables that record what the  *)
(* invocation did.  Several invocations follow each other over the same    *)
(* output directory and the same manifest.                                 *)
(***************************************************************************)
EXTENDS Integers, Sequences, FiniteSets, TLC

\* ------------------------------------------------------------------ bounds
NPairs == 2
MaxPairs == 3
MaxSuffix == 2
MaxRuns == 3
MaxCap == 1

Pairs == 1..MaxPairs
Paths == Pairs \X (0..MaxSuffix)

\* ------------------------------------------------- values of the program
\* pandas represents an empty CSV field as NaN when a file is read back
NaN == "nan"
\* config.max_files is None
NoCap == 0
\* config.s3_bucket is None
NoBucket == ""
Bucket == "bkt"

\* destination_basename / build_source_dest_df: one planned destination per
\* manifest row, <<p, 0>>; <<p, k>> is the same name with suffix "(k)"
Destination(p) == <<p, 0>>
\* _stable_hash(source)
SourceHash(p) == "sha256_" \o ToString(p)
\* upload_file_to_s3 returns f"s3://{bucket}/{key}", key ends in the file name
S3Uri(path) == "s3://bkt/svs_" \o ToString(path[1]) \o "_" \o ToString(path[2])


\* ------------------------------------------------------------- variables
VARIABLES
    \* the output directory on disk
    status_csv,         \* status/status.csv: [exists, rows]
    s3_csv,             \* s3_manifest.csv: [exists, rows]
    run_json,           \* run.json: [exists, run, dry_run, success, failed, manifest_rows]
    files,              \* the files present under the svs subtree (a set of Paths)
    \* the environment
    source_exists,      \* the manifest rows whose source file exists
    manifest_len,       \* len(manifest_df): the number of pairs of the manifest
    \* the invocation of run_pipeline in progress
    cfg,                \* the PipelineConfig it was given
    pc,                 \* "idle" | "loop" | "post"
    i,                  \* index of the pair the for loop is at
    status_rows,        \* list of StatusRecords accumulated in this run
    existing_status,    \* rows _load_existing_status read (file order)
    s3_manifest_rows,   \* list of RemoteManifestEntries
    processed_count,
    result,             \* the worker result of the pair being handled
    \* history
    runs,               \* number of invocations started
    last_exit,          \* how the latest invocation ended
    branch,             \* per pair: what this run did with it
    worker_calls,       \* pairs deidentify_one was invoked for in this run
    md5_calls,          \* paths md5_checksum was invoked on in this run
    upload_calls,       \* upload_file_to_s3 invocations of this run: [path, ok]
    unlinks,            \* log of the orchestrator's deletions of local files
    start,              \* the output directory as this run found it
    prev,               \* the previous invocation: its exit and its bucket
    touched,            \* the svs subtree was modified from outside since the
                        \* latest invocation ended
    \* one call of the Copy-and-Redact Worker, followed byte by byte
    os_name,            \* "posix" | "nt"
    slide,              \* the bytes of the source file
    page_kind,          \* what each page of the source is: IFD offset -> mark
    has_dir,            \* the requested destination names a directory
    tree,               \* the files name, name(1), ..: bytes, or NoBytes
    open_handles,       \* names on which a handle was opened and not closed
    wpc,                \* "off" | "call" | "label" | "macro" | "except" | "returned"
    newname,            \* the local variable of copy_and_strip: a name index
    copyop,             \* the CopyOp record of the file
    exc,                \* the exception being handled, "" if none
    escaped,            \* an exception left copy_and_strip
    last,               \* the latest call of delete_associated_image
    entry,              \* tree when copy_and_strip was called
    repeats,            \* calls of delete_associated_image after the worker
    \* the operations followed on their own
    report,             \* the latest call of validate_deidentify_metadata
    cli,                \* the latest `run` command of the command line
    upload,             \* the call of upload_file_to_s3 in progress
    op,                 \* a CopyOp shared by threads: [lock, value]
    threads,            \* per thread: where it is in update() or read()
    observed,           \* what read() returned, and the whole updates so far
    table,              \* a manifest file, and what read_manifest and
                        \* build_source_dest_df make of it
    race                \* two calls of copy_and_strip at once: [fs, at]

disk == <<status_csv, s3_csv, run_json, files>>
\* what no invocation of run_pipeline changes
worker == <<os_name, slide, page_kind, has_dir, tree, open_handles, wpc,
            newname, copyop, exc, escaped, last, entry, repeats>>
copying == <<op, threads, observed>>
aside == <<report, cli, upload, copying, table, race>>
outside == <<source_exists, manifest_len, worker, aside>>
locals == <<cfg, pc, i, status_rows, existing_status, s3_manifest_rows,
            processed_count, result>>
history == <<runs, last_exit, branch, worker_calls, md5_calls, upload_calls,
             unlinks, start, prev, touched>>
vars == <<status_csv, s3_csv, run_json, files, source_exists, manifest_len,
          cfg, pc, i,
          status_rows, existing_status, s3_manifest_rows, processed_count,
          result, runs, last_exit, branch, worker_calls, md5_calls,
          upload_calls, unlinks, start, prev, touched, os_name, slide,
          page_kind, has_dir, tree, open_handles, wpc, newname, copyop,
          exc, escaped, last, entry, repeats, report, cli, upload, op,
          threads, observed, table, race>>

\* ------------------------------------------------------- CSV round trip
\* DataFrame.to_csv writes a missing value (NaN, None) as an empty field
CsvOut(v) == IF v = NaN THEN "" ELSE v
\* pandas.read_csv reads an empty field back as NaN
CsvIn(v) == IF v = "" THEN NaN ELSE v

\* write_status_csv: one CSV line per StatusRecord, columns in record order
ToCsvRow(r) ==
    [destination |-> r.destination,
     source_hash |-> CsvOut(r.source_hash),
     status |-> CsvOut(r.status),
     error |-> CsvOut(r.error),
     md5 |-> CsvOut(r.md5),
     upload_status |-> CsvOut(r.upload_status),
     s3_uri |-> CsvOut(r.s3_uri),
     local_deleted |-> CsvOut(r.local_deleted)]

ToCsv(rows) == [j \in 1..Len(rows) |-> ToCsvRow(rows[j])]

\* _load_existing_status: every line becomes a pandas Series
FromCsvRow(c) ==
    [destination |-> c.destination,
     source_hash |-> CsvIn(c.source_hash),
     status |-> CsvIn(c.status),
     error |-> CsvIn(c.error),
     md5 |-> CsvIn(c.md5),
     upload_status |-> CsvIn(c.upload_status),
     s3_uri |-> CsvIn(c.s3_uri),
     local_deleted |-> CsvIn(c.local_deleted),
     kind |-> "Series"]

FromCsv(lines) == [j \in 1..Len(lines) |-> FromCsvRow(lines[j])]

\* write_s3_manifest / _load_existing_s3_manifest
S3ToCsv(rows) ==
    [j \in 1..Len(rows) |->
        [local_path |-> rows[j].local_path, s3_uri |-> CsvOut(rows[j].s3_uri)]]

S3FromCsv(lines) ==
    [j \in 1..Len(lines) |->
        [local_path |-> lines[j].local_path, s3_uri |-> CsvIn(lines[j].s3_uri)]]

NoFile == [exists |-> FALSE, rows |-> <<>>]
File(lines) == [exists |-> TRUE, rows |-> lines]

\* (a variant that finds no status file)
_load_existing_status_Nothing(f) == <<>>
_load_existing_status(f) == IF f.exists THEN FromCsv(f.rows) ELSE <<>>
_load_existing_s3_manifest(f) == IF f.exists THEN S3FromCsv(f.rows) ELSE <<>>

\* existing_status.get(destination): the dict keeps the last row of a key
HasPrevious(es, dest) == \E j \in 1..Len(es) : es[j].destination = dest
Previous(es, dest) ==
    es[CHOOSE j \in 1..Len(es) :
          /\ es[j].destination = dest
          /\ \A k \in (j + 1)..Len(es) : es[k].destination # dest]

\* s3_manifest_index = {row.get("local_path"): row for row in s3_manifest_rows},
\* kept in step with s3_manifest_rows by the loop
InS3Index(rows, path) == \E j \in 1..Len(rows) : rows[j].local_path = path
S3IndexUri(rows, path) ==
    rows[CHOOSE j \in 1..Len(rows) :
            /\ rows[j].local_path = path
            /\ \A k \in (j + 1)..Len(rows) : rows[k].local_path # path].s3_uri

\* ----------------------------------------------------------- the worker
\* copy_and_strip never overwrites: the requested name when it is free, else
\* the first free name(1), name(2), ...
FreeSuffixes(fs, p) == {k \in 0..MaxSuffix : <<p, k>> \notin fs}
HasFreeName(fs, p) == FreeSuffixes(fs, p) # {}
NewName(fs, p) ==
    <<p, CHOOSE k \in FreeSuffixes(fs, p) : \A m \in FreeSuffixes(fs, p) : k <= m>>

\* The outcomes deidentify_one can report for pair p (fail_fast aside):
\*   os.stat(source) raises          -> failed, the requested destination
\*   copy_and_strip redacts the copy -> success, the name it copied to
\*   copy_and_strip fails            -> failed, the name it copied to, the
\*                                      copy removed again
WorkerOutcomes(fs, srcs, p) ==
    IF p \notin srcs
    THEN {[destination |-> Destination(p), status |-> "failed",
           error |-> "No such file or directory"]}
    ELSE {[destination |-> NewName(fs, p), status |-> "success", error |-> ""],
          [destination |-> NewName(fs, p), status |-> "failed",
           error |-> "deidentification failed"]}

\* the files on disk after deidentify_one reported outcome r
FilesAfterWorker(fs, r) ==
    IF r.status = "success" THEN fs \cup {r.destination} ELSE fs

\* md5_checksum: the digest, or None when the file cannot be read
md5_checksum(fs, path) == IF path \in fs THEN "md5_of_file" ELSE "None"

\* ------------------------------------------------------------ the config
\* The attributes of config that run_pipeline reads.  max_files is read at
\* pipeline.py lines 122 and 243 and is the --max-files option of cli.py
\* (None, or an integer >= 1); the PipelineConfig dataclass of config.py
\* declares no such field, so the attribute is modelled as the caller sets it.
Configs ==
    [resume : BOOLEAN, s3_bucket : {NoBucket, Bucket}, keep_local : BOOLEAN,
     max_files : {NoCap} \cup (1..MaxCap), fail_fast : BOOLEAN,
     dry_run : BOOLEAN]

\* the defaults of the PipelineConfig dataclass
DefaultConfig ==
    [resume |-> FALSE, s3_bucket |-> NoBucket, keep_local |-> TRUE,
     max_files |-> NoCap, fail_fast |-> FALSE, dry_run |-> FALSE]

NoResult == [destination |-> <<0, 0>>, status |-> "", error |-> "", md5 |-> ""]
NoBranch == [p \in Pairs |-> "none"]
NoPrev == [exit |-> "none", bucket |-> NoBucket]
NoJournal == [exists |-> FALSE, run |-> 0, dry_run |-> FALSE, success |-> 0,
              failed |-> 0, manifest_rows |-> 0]

\* no file is followed byte by byte while run_pipeline is followed
NoBytes == <<>>
NoCopyOp == [dest |-> -1, renamed |-> FALSE, failed |-> FALSE,
             failure_message |-> "", done |-> FALSE]
NoCall == [image_type |-> "", name |-> -1, out |-> "", before |-> NoBytes,
           after |-> NoBytes, open |-> FALSE]
\* no call of validate_deidentify_metadata yet
NoReport == [called |-> FALSE, through_all |-> FALSE, validate_mode |-> FALSE,
             before |-> NoBytes, after |-> NoBytes, clean_filename |-> FALSE,
             no_label |-> TRUE, no_macro |-> TRUE]
\* no `run` command yet
NoCommand == [called |-> FALSE, dry_run |-> FALSE, allow_partial |-> FALSE,
              outcome |-> "", exit_code |-> 0, failures |-> 0]
\* no call of upload_file_to_s3 yet
NoUpload == [pc |-> "off", max_retries |-> 0, backoff_seconds |-> 0,
             attempts |-> 0, outcomes |-> <<>>, slept |-> <<>>, ret |-> ""]
\* the fields a CopyOp record is given by copy_and_strip (lines 403-430)
Fields == {"dest", "renamed", "failed", "failure_message", "done"}
Free == 0
\* CopyOp([{...}]): one record, the lock free; every field holds the number
\* of the update() call that assigned it, 0 for what the constructor was given
NewCopyOp == [lock |-> Free, value |-> <<[k \in Fields |-> 0]>>]
CopyOpOff ==
    /\ op = NewCopyOp
    /\ threads = <<>>
    /\ observed = [snapshots |-> <<>>, whole |-> {}, atomic |-> <<>>, calls |-> 0]
\* no manifest file yet
NoTable == [pc |-> "off", columns |-> {}, lines |-> <<>>, in_cwd |-> {},
            raised |-> "", df |-> <<>>, plan |-> <<>>]
\* no two calls of copy_and_strip at once
NoRace == [fs |-> <<>>, at |-> <<>>]
AsideOff ==
    /\ report = NoReport
    /\ cli = NoCommand
    /\ upload = NoUpload
    /\ CopyOpOff
    /\ table = NoTable
    /\ race = NoRace
WorkerOff ==
    /\ os_name = "posix"
    /\ slide = NoBytes
    /\ page_kind = <<>>
    /\ has_dir = TRUE
    /\ tree = [k \in 0..MaxSuffix |-> NoBytes]
    /\ open_handles = {}
    /\ wpc = "off"
    /\ newname = 0
    /\ copyop = NoCopyOp
    /\ exc = ""
    /\ escaped = FALSE
    /\ last = NoCall
    /\ entry = [k \in 0..MaxSuffix |-> NoBytes]
    /\ repeats = 0

\* the state before the first invocation, for a manifest of n pairs
\* (the worker not followed byte by byte: FirstStart)
PipelineStart(n) ==
    /\ status_csv = NoFile
    /\ s3_csv = NoFile
    /\ run_json = NoJournal
    /\ files = {}
    /\ manifest_len = n
    /\ source_exists \in SUBSET (1..manifest_len)
    /\ cfg = DefaultConfig
    /\ pc = "idle"
    /\ i = 1
    /\ status_rows = <<>>
    /\ existing_status = <<>>
    /\ s3_manifest_rows = <<>>
    /\ processed_count = 0
    /\ result = NoResult
    /\ runs = 0
    /\ last_exit = "none"
    /\ branch = NoBranch
    /\ worker_calls = {}
    /\ md5_calls = {}
    /\ upload_calls = {}
    /\ unlinks = {}
    /\ start = [status_csv |-> NoFile, s3_csv |-> NoFile, files |-> {},
                touched |-> FALSE, log_opened |-> FALSE,
                manifest_read |-> FALSE, derived_written |-> FALSE]
    /\ prev = NoPrev
    /\ touched = FALSE

FirstStart(n) == WorkerOff /\ AsideOff /\ PipelineStart(n)

Init == FirstStart(NPairs)

\* every way of leaving run_pipeline: its local variables are gone
Leave(how) ==
    /\ pc' = "idle"
    /\ last_exit' = how
    /\ touched' = FALSE
    /\ i' = 1
    /\ status_rows' = <<>>
    /\ existing_status' = <<>>
    /\ s3_manifest_rows' = <<>>
    /\ processed_count' = 0
    /\ result' = NoResult

\* what entering run_pipeline does to the history
\* (reached: the check of line 163 let the run go on to read_manifest, line
\* 165, and write_derived_csv, line 168; the log file is opened before it)
Enter(c, reached) ==
    /\ runs < MaxRuns
    /\ runs' = runs + 1
    /\ cfg' = c
    /\ prev' = [exit |-> last_exit, bucket |-> cfg.s3_bucket]
    /\ start' = [status_csv |-> status_csv, s3_csv |-> s3_csv, files |-> files,
                 touched |-> touched, log_opened |-> TRUE,
                 manifest_read |-> reached, derived_written |-> reached]
    /\ branch' = NoBranch
    /\ worker_calls' = {}
    /\ md5_calls' = {}
    /\ upload_calls' = {}
    /\ unlinks' = {}

\* (a variant without the check of line 163)
Rejects_Never(c) == FALSE
\* run_pipeline, line 163: keep_local=False needs a bucket
Rejects(c) == ~c.keep_local /\ c.s3_bucket = NoBucket /\ ~c.dry_run

\* lines 155-164: nothing is written before the ValueError
StartRejected(c) ==
    /\ pc = "idle"
    /\ Rejects(c)
    /\ Enter(c, FALSE)
    /\ Leave("rejected")
    /\ UNCHANGED <<disk, outside>>

\* (a variant in which the dry run computes the checksum of the destination)
PlannedRow_WithChecksum(p) ==
    [destination |-> Destination(p), source_hash |-> "", status |-> "planned",
     error |-> "", md5 |-> "md5_of_file", upload_status |-> "not_requested",
     s3_uri |-> "", local_deleted |-> "no", kind |-> "dict"]
PlannedRow(p) ==
    [destination |-> Destination(p), source_hash |-> "", status |-> "planned",
     error |-> "", md5 |-> "", upload_status |-> "not_requested",
     s3_uri |-> "", local_deleted |-> "no", kind |-> "dict"]

\* run_pipeline with dry_run: planned rows and the journal, then return
DryRun(c) ==
    /\ pc = "idle"
    /\ c.dry_run
    /\ Enter(c, TRUE)
    /\ Leave("dry_run")
    /\ status_csv' = File(ToCsv([p \in 1..manifest_len |-> PlannedRow(p)]))
    /\ run_json' = [exists |-> TRUE, run |-> runs + 1, dry_run |-> TRUE,
                    success |-> 0, failed |-> 0, manifest_rows |-> manifest_len]
    /\ UNCHANGED <<s3_csv, files, outside>>

\* run_pipeline up to the for loop (lines 155-202)
StartRun(c) ==
    /\ pc = "idle"
    /\ ~c.dry_run
    /\ ~Rejects(c)
    /\ Enter(c, TRUE)
    /\ existing_status' =
          IF c.resume THEN _load_existing_status(status_csv) ELSE <<>>
    /\ s3_manifest_rows' =
          IF c.resume THEN _load_existing_s3_manifest(s3_csv) ELSE <<>>
    /\ pc' = "loop"
    /\ UNCHANGED <<disk, outside, last_exit, touched, i, status_rows,
                   processed_count, result>>

\* --------------------------------------------- the for loop, lines 204-262
HasBucket == cfg.s3_bucket # NoBucket
local_exists(p) == Destination(p) \in files
has_previous(p) == HasPrevious(existing_status, Destination(p))
previous(p) == Previous(existing_status, Destination(p))
previous_uploaded(p) ==
    has_previous(p) /\ previous(p).upload_status = "uploaded"
previous_success(p) == has_previous(p) /\ previous(p).status = "success"

\* lines 212-217 up to the last conjunct, which is `not previous`
RemoteOnlyReached(p) ==
    /\ cfg.resume
    /\ HasBucket
    /\ InS3Index(s3_manifest_rows, Destination(p))
    /\ ~local_exists(p)

\* a variant that reuses any prior record, whatever its status
ShortCircuits_AnyStatus(p) ==
    /\ has_previous(p)
    /\ \/ HasBucket /\ previous_uploaded(p)
       \/ ~HasBucket

\* lines 235-241
ShortCircuits(p) ==
    /\ previous_success(p)
    /\ \/ HasBucket /\ previous_uploaded(p)
       \/ ~HasBucket /\ local_exists(p)

\* a variant of the cap test that is off by one
CapReached_OffByOne ==
    cfg.max_files # NoCap /\ processed_count > cfg.max_files

\* line 243
CapReached ==
    cfg.max_files # NoCap /\ processed_count >= cfg.max_files

\* a variant that does not take the remote URI over from the manifest
RemoteOnlyRow_NoUri(p) ==
    [destination |-> Destination(p), source_hash |-> SourceHash(p),
     status |-> "success", error |-> "", md5 |-> "",
     upload_status |-> "uploaded", s3_uri |-> "",
     local_deleted |-> "yes", kind |-> "dict"]

\* lines 221-232
RemoteOnlyRow(p) ==
    [destination |-> Destination(p), source_hash |-> SourceHash(p),
     status |-> "success", error |-> "", md5 |-> "",
     upload_status |-> "uploaded",
     s3_uri |-> S3IndexUri(s3_manifest_rows, Destination(p)),
     local_deleted |-> "yes", kind |-> "dict"]

\* `not previous` on a pandas Series raises ValueError (the truth value of a
\* Series is ambiguous); nothing catches it, run_pipeline is left
PairTruthValueRaises ==
    /\ pc = "loop" /\ i <= manifest_len
    /\ RemoteOnlyReached(i)
    /\ has_previous(i)
    /\ Leave("truth_value_raised")
    /\ branch' = [branch EXCEPT ![i] = "raised"]
    /\ UNCHANGED <<disk, outside, cfg, runs, worker_calls, md5_calls,
                   upload_calls, unlinks, start, prev>>

\* lines 212-233: the remote-only terminal state, then `continue`
PairRemoteOnly ==
    /\ pc = "loop" /\ i <= manifest_len
    /\ RemoteOnlyReached(i)
    /\ ~has_previous(i)
    /\ status_rows' = Append(status_rows, RemoteOnlyRow(i))
    /\ branch' = [branch EXCEPT ![i] = "remote_only"]
    /\ i' = i + 1
    /\ UNCHANGED <<disk, outside, cfg, pc, existing_status,
                   s3_manifest_rows, processed_count, result, runs, last_exit,
                   worker_calls, md5_calls, upload_calls, unlinks, start, prev,
                   touched>>

\* lines 235-241: the prior record is appended as it was read, then `continue`
PairShortCircuit ==
    /\ pc = "loop" /\ i <= manifest_len
    /\ ~RemoteOnlyReached(i)
    /\ ShortCircuits(i)
    /\ status_rows' = Append(status_rows, previous(i))
    /\ branch' = [branch EXCEPT ![i] = "short_circuit"]
    /\ i' = i + 1
    /\ UNCHANGED <<disk, outside, cfg, pc, existing_status,
                   s3_manifest_rows, processed_count, result, runs, last_exit,
                   worker_calls, md5_calls, upload_calls, unlinks, start, prev,
                   touched>>

\* lines 243-244: the cap is reached, `continue`
PairDeferred ==
    /\ pc = "loop" /\ i <= manifest_len
    /\ ~RemoteOnlyReached(i)
    /\ ~ShortCircuits(i)
    /\ CapReached
    /\ branch' = [branch EXCEPT ![i] = "deferred"]
    /\ i' = i + 1
    /\ UNCHANGED <<disk, outside, cfg, pc, status_rows, existing_status,
                   s3_manifest_rows, processed_count, result, runs, last_exit,
                   worker_calls, md5_calls, upload_calls, unlinks, start, prev,
                   touched>>

\* lines 258-262: the checksum of a success, "" otherwise
WithMd5(fs, r) ==
    [destination |-> r.destination, status |-> r.status, error |-> r.error,
     md5 |-> IF r.status = "success"
             THEN (IF md5_checksum(fs, r.destination) = "None" THEN ""
                   ELSE md5_checksum(fs, r.destination))
             ELSE ""]

\* lines 246-251 and 256-262: a prior success that was not short-circuited is
\* taken over as the result without invoking the worker
PairPriorSuccess ==
    /\ pc = "loop" /\ i <= manifest_len
    /\ ~RemoteOnlyReached(i)
    /\ ~ShortCircuits(i)
    /\ ~CapReached
    /\ previous_success(i)
    /\ result' = WithMd5(files, [destination |-> Destination(i),
                                 status |-> "success",
                                 error |-> previous(i).error])
    /\ md5_calls' = md5_calls \cup {Destination(i)}
    /\ branch' = [branch EXCEPT ![i] = "prior_success"]
    /\ pc' = "post"
    /\ UNCHANGED <<disk, outside, cfg, i, status_rows, existing_status,
                   s3_manifest_rows, processed_count, runs, last_exit,
                   worker_calls, upload_calls, unlinks, start, prev, touched>>

\* deidentify_one, lines 562-563 and 569-571: with fail_fast the failure r is
\* raised instead of returned
Reraises_Never(r) == FALSE
Reraises(r) == cfg.fail_fast /\ r.status = "failed"

\* lines 252-262: deidentify_one, the counter, the checksum
PairWorker ==
    /\ pc = "loop" /\ i <= manifest_len
    /\ ~RemoteOnlyReached(i)
    /\ ~ShortCircuits(i)
    /\ ~CapReached
    /\ ~previous_success(i)
    /\ HasFreeName(files, i)
    /\ \E r \in WorkerOutcomes(files, source_exists, i) :
          /\ ~Reraises(r)
          /\ files' = FilesAfterWorker(files, r)
          /\ result' = WithMd5(files', r)
          /\ md5_calls' = IF r.status = "success"
                          THEN md5_calls \cup {r.destination} ELSE md5_calls
    /\ worker_calls' = worker_calls \cup {i}
    /\ processed_count' = processed_count + 1
    /\ branch' = [branch EXCEPT ![i] = "worker"]
    /\ pc' = "post"
    /\ UNCHANGED <<status_csv, s3_csv, run_json, outside, cfg, i,
                   status_rows, existing_status, s3_manifest_rows, runs,
                   last_exit, upload_calls, unlinks, start, prev, touched>>

\* deidentify_one with fail_fast: a failure is re-raised out of run_pipeline
PairWorkerFailFast ==
    /\ pc = "loop" /\ i <= manifest_len
    /\ ~RemoteOnlyReached(i)
    /\ ~ShortCircuits(i)
    /\ ~CapReached
    /\ ~previous_success(i)
    /\ HasFreeName(files, i)
    /\ \E r \in WorkerOutcomes(files, source_exists, i) : Reraises(r)
    /\ worker_calls' = worker_calls \cup {i}
    /\ branch' = [branch EXCEPT ![i] = "raised"]
    /\ Leave("fail_fast_raised")
    /\ UNCHANGED <<disk, outside, cfg, runs, md5_calls, upload_calls,
                   unlinks, start, prev>>

\* --------------------------------------------- the for loop, lines 264-323
Succeeded == result.status = "success"
\* line 270: a cached upload URI exists for the result's destination
Cached == InS3Index(s3_manifest_rows, result.destination)
\* lines 273-283: a fresh upload is attempted
FreshUpload == HasBucket /\ Succeeded /\ ~Cached
\* a variant of line 297 that does not look at the result's status
Deletes_WhateverStatus == HasBucket /\ ~cfg.keep_local

\* line 297: the local copy is deleted
Deletes == Succeeded /\ HasBucket /\ ~cfg.keep_local

\* lines 264-285: upload_status and s3_uri, a fresh upload having returned
UploadStatus ==
    IF HasBucket /\ Succeeded THEN "uploaded"
    ELSE IF HasBucket THEN "pending" ELSE "not_requested"
UploadUri ==
    IF HasBucket /\ Succeeded
    THEN (IF Cached THEN S3IndexUri(s3_manifest_rows, result.destination)
          ELSE S3Uri(result.destination))
    ELSE ""

\* lines 301-310
StatusRow ==
    [destination |-> result.destination, source_hash |-> SourceHash(i),
     status |-> result.status, error |-> result.error, md5 |-> result.md5,
     upload_status |-> UploadStatus, s3_uri |-> UploadUri,
     local_deleted |-> IF Deletes THEN "yes" ELSE "no", kind |-> "Series"]

RowsAfterUpload ==
    IF FreshUpload
    THEN Append(s3_manifest_rows,
                [local_path |-> result.destination,
                 s3_uri |-> S3Uri(result.destination)])
    ELSE s3_manifest_rows

\* pandas builds the frame from the first element's type: a list that starts
\* with a Series and holds a dict further on is the shape the comments at
\* lines 219 and 311 expect to fail; both outcomes are kept
MixedRows(rows) ==
    /\ Len(rows) > 0
    /\ rows[1].kind = "Series"
    /\ \E j \in 1..Len(rows) : rows[j].kind = "dict"

\* upload_file_to_s3 raises (retries exhausted, or the file cannot be read):
\* the exception leaves run_pipeline at line 274
PairUploadRaises ==
    /\ pc = "post"
    /\ FreshUpload
    /\ upload_calls' =
          upload_calls \cup {[path |-> result.destination, ok |-> FALSE]}
    /\ Leave("upload_raised")
    /\ UNCHANGED <<disk, outside, cfg, runs, branch, worker_calls,
                   md5_calls, unlinks, start, prev>>

\* generate_metadata_file_record opens the destination; when the file is not
\* there the exception leaves run_pipeline at line 290
PairMetadataRaises ==
    /\ pc = "post"
    /\ Succeeded
    /\ ~FreshUpload
    /\ result.destination \notin files
    /\ Leave("metadata_raised")
    /\ UNCHANGED <<disk, outside, cfg, runs, branch, worker_calls,
                   md5_calls, upload_calls, unlinks, start, prev>>

\* lines 264-323 without an exception: upload or cached URI, metadata
\* record, deletion of the local copy, the row, both files written
PairFinish ==
    /\ pc = "post"
    /\ Succeeded => result.destination \in files
    /\ upload_calls' =
          IF FreshUpload
          THEN upload_calls \cup {[path |-> result.destination, ok |-> TRUE]}
          ELSE upload_calls
    /\ files' = IF Deletes THEN files \ {result.destination} ELSE files
    /\ unlinks' = IF Deletes
                  THEN unlinks \cup {[path |-> result.destination,
                                      status |-> result.status,
                                      upload_status |-> UploadStatus,
                                      s3_uri |-> UploadUri,
                                      bucket |-> cfg.s3_bucket,
                                      keep_local |-> cfg.keep_local]}
                  ELSE unlinks
    /\ \/ /\ status_rows' = Append(status_rows, StatusRow)
          /\ s3_manifest_rows' = RowsAfterUpload
          /\ status_csv' = File(ToCsv(status_rows'))
          /\ s3_csv' = IF Len(s3_manifest_rows') > 0
                       THEN File(S3ToCsv(s3_manifest_rows')) ELSE s3_csv
          /\ pc' = "loop"
          /\ i' = i + 1
          /\ UNCHANGED <<last_exit, touched, existing_status,
                         processed_count, result>>
       \/ /\ MixedRows(Append(status_rows, StatusRow))
          /\ Leave("write_raised")
          /\ UNCHANGED <<status_csv, s3_csv>>
    /\ UNCHANGED <<run_json, outside, cfg, runs, branch, worker_calls,
                   md5_calls, start, prev>>

\* ------------------------------------------------ after the loop, 325-349
CountStatus_Every(rows, ok) == Len(rows)
CountStatus(rows, ok) ==
    Cardinality({j \in 1..Len(rows) : (rows[j].status = "success") = ok})

EndRun ==
    /\ pc = "loop" /\ i = manifest_len + 1
    /\ \/ /\ status_csv' = File(ToCsv(status_rows))
          /\ run_json' = [exists |-> TRUE, run |-> runs, dry_run |-> FALSE,
                          success |-> CountStatus(status_rows, TRUE),
                          failed |-> CountStatus(status_rows, FALSE),
                          manifest_rows |-> manifest_len]
          /\ s3_csv' = IF HasBucket /\ Len(s3_manifest_rows) > 0
                       THEN File(S3ToCsv(s3_manifest_rows)) ELSE s3_csv
          /\ Leave("completed")
       \/ /\ MixedRows(status_rows)
          /\ Leave("write_raised")
          /\ UNCHANGED <<status_csv, run_json, s3_csv>>
    /\ UNCHANGED <<files, outside, cfg, runs, branch, worker_calls,
                   md5_calls, upload_calls, unlinks, start, prev>>

\* ------------------------------------------------------- the environment
\* the process is killed between two pairs or while a pair is being handled
\* (followed up to the last invocation but one: what an interruption leaves
\* behind shows in the invocation after it)
Interrupt ==
    /\ pc \in {"loop", "post"}
    /\ runs < MaxRuns
    /\ Leave("interrupted")
    /\ UNCHANGED <<disk, outside, cfg, runs, branch, worker_calls,
                   md5_calls, upload_calls, unlinks, start, prev>>

\* somebody removes a redacted file between two invocations
RemoveLocal ==
    /\ pc = "idle"
    /\ runs < MaxRuns
    /\ \E f \in files :
          /\ files' = files \ {f}
          /\ touched' = TRUE
    /\ UNCHANGED <<status_csv, s3_csv, run_json, outside, locals,
                   runs, last_exit, branch, worker_calls, md5_calls,
                   upload_calls, unlinks, start, prev>>

\* the configurations of the runs of Spec: neither dry_run nor fail_fast
RunConfigs == {c \in Configs : ~c.dry_run /\ ~c.fail_fast}

Next ==
    \/ \E c \in RunConfigs : StartRun(c)
    \/ PairTruthValueRaises
    \/ PairRemoteOnly
    \/ PairShortCircuit
    \/ PairDeferred
    \/ PairPriorSuccess
    \/ PairWorker
    \/ PairUploadRaises
    \/ PairMetadataRaises
    \/ PairFinish
    \/ EndRun
    \/ Interrupt
    \/ RemoveLocal

Spec == Init /\ [][Next]_vars

\* ---------------------------------------------------------------------
\* Runs over a manifest of MaxPairs pairs, with a remote target, without
\* local retention, without cap: resume is the only choice left.  The loop
\* actions left out (PairDeferred, PairPriorSuccess, PairMetadataRaises) are
\* never enabled under these configurations.
ThreeConfigs ==
    {c \in RunConfigs :
        c.s3_bucket = Bucket /\ ~c.keep_local /\ c.max_files = NoCap}

InitThree == FirstStart(MaxPairs)

NextThree ==
    \/ \E c \in ThreeConfigs : StartRun(c)
    \/ PairTruthValueRaises
    \/ PairRemoteOnly
    \/ PairShortCircuit
    \/ PairWorker
    \/ PairUploadRaises
    \/ PairFinish
    \/ EndRun

SpecThree == InitThree /\ [][NextThree]_vars

\* ---------------------------------------------------------------------
\* Runs with fail_fast on
FailFastConfigs == {c \in Configs : ~c.dry_run /\ c.fail_fast}

NextFailFast ==
    \/ \E c \in FailFastConfigs : StartRun(c)
    \/ PairTruthValueRaises
    \/ PairRemoteOnly
    \/ PairShortCircuit
    \/ PairDeferred
    \/ PairPriorSuccess
    \/ PairWorker
    \/ PairWorkerFailFast
    \/ PairUploadRaises
    \/ PairMetadataRaises
    \/ PairFinish
    \/ EndRun
    \/ Interrupt
    \/ RemoveLocal

SpecFailFast == Init /\ [][NextFailFast]_vars

\* ---------------------------------------------------------------------
\* Runs without a remote target: dry runs, runs rejected at the start, runs
\* with and without resume, cap and local retention, one after the other
\* over the same output directory.  The loop actions left out
\* (PairTruthValueRaises, PairRemoteOnly, PairUploadRaises) need a remote
\* target.
LocalConfigs == {c \in Configs : c.s3_bucket = NoBucket /\ ~c.fail_fast}

NextLocal ==
    \/ \E c \in LocalConfigs : StartRun(c)
    \/ \E c \in LocalConfigs : DryRun(c)
    \/ \E c \in LocalConfigs : StartRejected(c)
    \/ PairShortCircuit
    \/ PairDeferred
    \/ PairPriorSuccess
    \/ PairWorker
    \/ PairMetadataRaises
    \/ PairFinish
    \/ EndRun
    \/ Interrupt
    \/ RemoveLocal

SpecLocal == Init /\ [][NextLocal]_vars

\* ===================================================================
\* What the current (or latest) invocation found when it started
\* ===================================================================
\* the rows a resumed run reads from the status file it found
RowsAtStart == IF cfg.resume THEN _load_existing_status(start.status_csv) ELSE <<>>
S3RowsAtStart == IF cfg.resume THEN _load_existing_s3_manifest(start.s3_csv) ELSE <<>>
PriorAtStart(p) == HasPrevious(RowsAtStart, Destination(p))
PriorRowAtStart(p) == Previous(RowsAtStart, Destination(p))
PriorSuccessAtStart(p) == PriorAtStart(p) /\ PriorRowAtStart(p).status = "success"
PriorUploadedAtStart(p) ==
    PriorAtStart(p) /\ PriorRowAtStart(p).upload_status = "uploaded"
LocalAtStart(p) == Destination(p) \in start.files
\* the status file holds a success record for the planned destination of p
PersistedSuccess(f, p) ==
    /\ f.exists
    /\ \E j \in 1..Len(f.rows) :
          f.rows[j].destination = Destination(p) /\ f.rows[j].status = "success"
\* pair p went through a fresh processing attempt in this run
Reprocessed(p) == branch[p] \in {"worker", "prior_success"}
Running == pc # "idle"

\* C1: a resumed run that is interrupted between two pairs leaves a status
\* file that still holds a success record for every pair that had one when the
\* run started and was not processed again (so that the next resumed run
\* finds it and does not redo the pair).
C1_InterruptKeepsPriorSuccess ==
    (pc = "loop" /\ cfg.resume) =>
        \A p \in Pairs :
            (PersistedSuccess(start.status_csv, p) /\ ~Reprocessed(p))
                => PersistedSuccess(status_csv, p)

Completed == pc = "idle" /\ last_exit = "completed"
\* this is a resumed run without remote target that follows a completed run
\* without remote target, the output directory untouched in between
ResumedLocalRerun ==
    /\ runs >= 2
    /\ cfg.resume /\ cfg.s3_bucket = NoBucket
    /\ prev.exit = "completed" /\ prev.bucket = NoBucket
    /\ ~start.touched
    /\ start.status_csv.exists
PriorFailedAtStart(p) == PriorAtStart(p) /\ PriorRowAtStart(p).status = "failed"

\* C3: resume convergence.  A resumed run without remote target, following a
\* run that ended with a success record for every pair, the output directory
\* untouched, invokes the worker zero times and ends with the status file
\* the first run left.
C3_ResumeConvergence ==
    (/\ ResumedLocalRerun
     /\ Len(start.status_csv.rows) = manifest_len
     /\ \A j \in 1..manifest_len : start.status_csv.rows[j].status = "success")
        => /\ worker_calls = {}
           /\ Completed => status_csv = start.status_csv

\* the scenario of C4: the previous run left a success record and a failed
\* record whose source is missing
OneSuccessOneFailed ==
    /\ ResumedLocalRerun
    /\ \E p \in Pairs : PriorSuccessAtStart(p)
    /\ \E q \in Pairs : PriorFailedAtStart(q) /\ q \notin source_exists

InS3AtStart(p) == InS3Index(S3RowsAtStart, Destination(p))
PathsOf(p) == {f \in Paths : f[1] = p}
NoChecksumNoUpload(p) ==
    /\ md5_calls \cap PathsOf(p) = {}
    /\ \A c \in upload_calls : c.path \notin PathsOf(p)
Handled(p) == runs >= 1 /\ branch[p] # "none"

\* the short-circuit condition of the spec (4.6) and of C5
ShortCircuitCondition(p) ==
    /\ PriorSuccessAtStart(p)
    /\ \/ cfg.s3_bucket # NoBucket /\ PriorUploadedAtStart(p)
       \/ cfg.s3_bucket = NoBucket /\ LocalAtStart(p)

\* C5: in a resumed run a pair whose prior record is success is
\* short-circuited (the prior record reused verbatim; no worker, no checksum,
\* no upload) whenever (a) a remote target is configured and the prior record
\* is uploaded, also when the local copy is gone and the remote manifest
\* lists the destination, or (b) no remote target is configured and the
\* local file exists.
C5_ShortCircuit ==
    \A p \in Pairs :
        (cfg.resume /\ Handled(p) /\ ShortCircuitCondition(p))
            => /\ branch[p] = "short_circuit"
               /\ p \notin worker_calls
               /\ NoChecksumNoUpload(p)
               /\ Running => \E j \in 1..Len(status_rows) :
                                status_rows[j] = PriorRowAtStart(p)

\* the remote-only condition as the code evaluates it
RemoteOnlyCondition(p) ==
    /\ cfg.resume
    /\ cfg.s3_bucket # NoBucket
    /\ InS3AtStart(p)
    /\ ~LocalAtStart(p)
    /\ ~PriorAtStart(p)

\* C6: in a resumed run every pair that meets neither the remote-only nor
\* the short-circuit condition and is within the cap has the worker invoked
\* for it, a pair with a prior success whose local file is gone (no remote
\* target) or whose prior upload status is not uploaded (remote target)
\* included.  (Stated for the pairs whose handling was not cut short by an
\* exception of the remote-only test.)
C6_WorkerInvokedOtherwise ==
    \A p \in Pairs :
        (/\ cfg.resume /\ Handled(p)
         /\ branch[p] \notin {"deferred", "raised"}
         /\ ~RemoteOnlyCondition(p)
         /\ ~ShortCircuitCondition(p))
            => p \in worker_calls

\* the outcome C7 describes: the inherited record, nothing invoked
RemoteOnlyOutcome(p) ==
    /\ branch[p] = "remote_only"
    /\ p \notin worker_calls
    /\ NoChecksumNoUpload(p)
    /\ Running => \E j \in 1..Len(status_rows) :
          /\ status_rows[j].destination = Destination(p)
          /\ status_rows[j].status = "success"
          /\ status_rows[j].upload_status = "uploaded"
          /\ status_rows[j].s3_uri = S3IndexUri(S3RowsAtStart, Destination(p))
          /\ status_rows[j].local_deleted = "yes"
          /\ status_rows[j].md5 = ""

CapExhaustedAt(p) ==
    /\ cfg.max_files # NoCap
    /\ Cardinality({q \in worker_calls : q < p}) >= cfg.max_files
RowsOfPair(rows, p) ==
    {j \in 1..Len(rows) : rows[j].destination \in PathsOf(p)}

\* C8: in a run with processing cap N the worker is invoked for at most N
\* pairs; short-circuited pairs do not count toward the cap (the counter is
\* the number of worker invocations); a pair reached after the cap is
\* exhausted gets no worker invocation, no fresh processing attempt and no
\* failed record.
C8_ProcessingCap ==
    (runs >= 1 /\ cfg.max_files # NoCap)
        => /\ Cardinality(worker_calls) <= cfg.max_files
           /\ Running => processed_count = Cardinality(worker_calls)
           /\ \A p \in Pairs :
                 CapExhaustedAt(p)
                     => /\ p \notin worker_calls
                        /\ ~Reprocessed(p)
                        /\ Running =>
                              \A j \in RowsOfPair(status_rows, p) :
                                  status_rows[j].status # "failed"

\* witness of C8: the cap is exhausted by an earlier pair and a later pair
\* was deferred
C8_Witness ==
    /\ Running
    /\ cfg.max_files # NoCap
    /\ Cardinality(worker_calls) = cfg.max_files
    /\ \E p \in Pairs : CapExhaustedAt(p) /\ branch[p] = "deferred"

Confirmed(u) ==
    /\ u.status = "success"
    /\ u.upload_status = "uploaded"
    /\ u.s3_uri \notin {"", NaN}
DeletedRowConfirmed(r) ==
    r.local_deleted = "yes"
        => r.upload_status = "uploaded" /\ r.s3_uri \notin {"", NaN}

\* C9: the orchestrator deletes a local destination file only when local
\* retention is disabled, the pair succeeded and its upload is confirmed (a
\* fresh upload returned, or a cached URI exists) at the moment of the
\* deletion; never when the upload raised, never without remote target; and
\* every record with local_deleted yes is uploaded with a remote URI.
C9_DeleteOnlyAfterUpload ==
    /\ \A u \in unlinks :
          /\ ~u.keep_local
          /\ u.bucket # NoBucket
          /\ Confirmed(u)
          /\ \A c \in upload_calls : c.path = u.path => c.ok
    /\ \A c \in upload_calls :
          (/\ ~c.ok
           /\ c.path \in start.files \/ c.path[1] \in worker_calls
           /\ ~touched)
              => c.path \in files
    /\ \A j \in 1..Len(status_rows) : DeletedRowConfirmed(status_rows[j])
    /\ \A j \in 1..Len(status_csv.rows) : DeletedRowConfirmed(status_csv.rows[j])

\* witness of C9: a fresh upload returned and the local copy was deleted
C9_Witness ==
    /\ Running
    /\ \E u \in unlinks :
          /\ u.path \notin files
          /\ \E c \in upload_calls : c.path = u.path /\ c.ok
    /\ \E j \in 1..Len(status_csv.rows) : status_csv.rows[j].local_deleted = "yes"

\* C10: when the upload raises its terminal failure for a file whose
\* redaction succeeded, only the upload step of that file fails: its
\* StatusRecord is persisted with status success and the run goes on.
C10_UploadFailureIsLocal ==
    \A c \in upload_calls :
        (~c.ok /\ c.path[1] \in worker_calls)
            => /\ last_exit # "upload_raised" \/ Running
               /\ \E j \in 1..Len(status_csv.rows) :
                     /\ status_csv.rows[j].destination = c.path
                     /\ status_csv.rows[j].status = "success"
\* ===================================================================
\* The slide file: a little-endian classic TIFF, byte by byte
\* ===================================================================
\* t.tiff.tagnosize, t.tiff.tagsize, t.tiff.offsetsize of a classic TIFF
TagNoSize == 2
TagSize == 12
OffsetSize == 4
\* the header: byte order, magic number, offset of the first IFD
HeaderSize == 8
\* tag codes and data types of the TIFF format
ImageDescription == 270
StripOffsets == 273
StripByteCounts == 279
TileOffsets == 324
TileByteCounts == 325
ASCII == 2
LONG == 4
\* the words the code looks for in a page description, one byte each:
\* "Aperio Image Library", "Aperio Leica Biosystems GT450", "label", "macro",
\* "Filename = ", "ImageID = ", and a byte of other text
AperioText == 65
GT450Text == 71
LabelText == 76
MacroText == 77
FilenameText == 70
ImageIDText == 73
OtherText == 46
\* the value of ImageID, and a Filename value that differs from it
IdValue == 49
NameValue == 50
\* a byte of pixel data
Pixel == 200

\* struct.pack / struct.unpack of an unsigned little-endian integer of n bytes
RECURSIVE Pack(_, _)
Pack(v, n) == IF n = 0 THEN <<>> ELSE <<v % 256>> \o Pack(v \div 256, n - 1)
\* the integer of n bytes at offset o of the byte sequence f (offsets from 0)
RECURSIVE Unpack(_, _, _)
Unpack(f, o, n) ==
    IF n = 0 THEN 0 ELSE f[o + 1] + 256 * Unpack(f, o + 1, n - 1)
\* fp.seek(o); fp.write(bs): bytes past the end of the file extend it
WriteAt(f, o, bs) ==
    [k \in 1..(IF o + Len(bs) > Len(f) THEN o + Len(bs) ELSE Len(f)) |->
        IF k > o /\ k <= o + Len(bs) THEN bs[k - o]
        ELSE IF k <= Len(f) THEN f[k] ELSE 0]
\* b'\0' * n
Zeros(n) == [k \in 1..n |-> 0]

\* ---- what tifffile reads from the file
\* size in bytes of one element of a data type
ElementSize(dtype) == IF dtype = LONG THEN 4 ELSE 1
\* number of tags of the IFD at offset o (line 294)
NumTags(f, o) == Unpack(f, o, TagNoSize)
\* offset of the k-th tag entry of the IFD at o
EntryAt(o, k) == o + TagNoSize + TagSize * (k - 1)
TagCode(f, e) == Unpack(f, e, 2)
TagType(f, e) == Unpack(f, e + 2, 2)
\* tag.count: the number of elements of the value
TagCount(f, e) == Unpack(f, e + 4, 4)
\* tag.valueoffset: a value of at most four bytes is kept in the entry itself
TagValueOffset(f, e) ==
    IF TagCount(f, e) * ElementSize(TagType(f, e)) <= OffsetSize
    THEN e + 8 ELSE Unpack(f, e + 8, OffsetSize)
\* the entries of the IFD at o
Entries(f, o) == {EntryAt(o, k) : k \in 1..NumTags(f, o)}
HasTag(f, o, code) == \E e \in Entries(f, o) : TagCode(f, e) = code
TagOf(f, o, code) == CHOOSE e \in Entries(f, o) : TagCode(f, e) = code
\* tag.value, as the sequence of its elements
TagValues(f, e) ==
    LET size == ElementSize(TagType(f, e))
    IN  [j \in 1..TagCount(f, e) |->
            Unpack(f, TagValueOffset(f, e) + size * (j - 1), size)]
\* lines 297-301: where the IFD's next pointer is, and what it holds
NextIfdOffset(f, o) == o + TagNoSize + NumTags(f, o) * TagSize
NextIfdValue(f, o) == Unpack(f, NextIfdOffset(f, o), OffsetSize)
\* t.pages: the IFD offsets the directory walk from the header visits
RECURSIVE WalkFrom(_, _, _)
WalkFrom(f, o, fuel) ==
    IF o = 0 \/ fuel = 0 THEN <<>>
    ELSE <<o>> \o WalkFrom(f, NextIfdValue(f, o), fuel - 1)
PageOffsets(f) == WalkFrom(f, Unpack(f, 4, OffsetSize), Len(f))
\* page.description, as the set of its bytes
DescriptionOf(f, o) ==
    IF HasTag(f, o, ImageDescription)
    THEN LET e == TagOf(f, o, ImageDescription)
         IN  {f[TagValueOffset(f, e) + k] : k \in 1..TagCount(f, e)}
    ELSE {}

\* ---- the slide files the worker is given
\* A slide is described by its scanner family (the text of the first page's
\* description), whether its Filename differs from its ImageID, and its
\* pages in directory order: what the description says the page is, and
\* whether its pixel data is striped or tiled.
MaxPages == 3
Families == {"AT2", "GT450", "other"}
PageKinds ==
    {[mark |-> "image", tiled |-> FALSE], [mark |-> "image", tiled |-> TRUE],
     [mark |-> "label", tiled |-> FALSE], [mark |-> "label", tiled |-> TRUE],
     [mark |-> "macro", tiled |-> FALSE]}
\* the first page of a slide is its full-resolution image
SlideKinds ==
    {sk \in [family : Families, clean : BOOLEAN,
             pages : UNION {[1..n -> PageKinds] : n \in 1..MaxPages}] :
        sk.pages[1].mark = "image"}

\* the bytes of a page, laid out as: description text, pixel data, the
\* arrays of strip offsets and byte counts (striped pages), the IFD
DescLen == 6
NStrips == 2
StripLen == 2
DataLen(pk) ==
    IF pk.tiled THEN DescLen + NStrips * StripLen
    ELSE DescLen + NStrips * StripLen + 2 * (NStrips * 4)
IfdLen == TagNoSize + 3 * TagSize + OffsetSize
PageLen(pk) == DataLen(pk) + IfdLen
RECURSIVE PageBase(_, _)
PageBase(pages, k) ==
    IF k = 1 THEN HeaderSize
    ELSE PageBase(pages, k - 1) + PageLen(pages[k - 1])
IfdBase(pages, k) == PageBase(pages, k) + DataLen(pages[k])

\* the text of a description: the scanner family on the first page, the
\* word "label" or "macro", the Filename and ImageID fragments, padding
\* (the ImageID fragment stands before the Filename fragment in the slides
\* that say so; in the others the Filename fragment comes first)
IdFirst(sk) == "id_first" \in DOMAIN sk /\ sk.id_first
DescMarks(sk, k) ==
    <<IF k > 1 THEN OtherText
      ELSE IF sk.family = "AT2" THEN AperioText
      ELSE IF sk.family = "GT450" THEN GT450Text ELSE OtherText,
      \* the descriptions of a GT450 file do not name the label and macro
      IF sk.family = "GT450" THEN OtherText
      ELSE IF sk.pages[k].mark = "label" THEN LabelText
      ELSE IF sk.pages[k].mark = "macro" THEN MacroText ELSE OtherText>>
    \o (IF sk.pages[k].mark # "image"
        THEN <<OtherText, OtherText, OtherText, OtherText>>
        ELSE IF IdFirst(sk)
        THEN <<ImageIDText, IdValue,
               FilenameText, IF sk.clean THEN IdValue ELSE NameValue>>
        ELSE <<FilenameText, IF sk.clean THEN IdValue ELSE NameValue,
               ImageIDText, IdValue>>)
DescText(sk, k) ==
    DescMarks(sk, k)
    \o [j \in 1..(DescLen - Len(DescMarks(sk, k))) |-> OtherText]
\* the array of the n strip offsets from..., or of the n byte counts
LongArray(n, from, step) ==
    [m \in 1..(n * 4) |->
        Pack(from + ((m - 1) \div 4) * step, 4)[((m - 1) % 4) + 1]]

TagEntry(code, dtype, count, value) ==
    Pack(code, 2) \o Pack(dtype, 2) \o Pack(count, 4) \o Pack(value, 4)

PageBytes(sk, k) ==
    LET pk == sk.pages[k]
        b == PageBase(sk.pages, k)
        next == IF k = Len(sk.pages) THEN 0 ELSE IfdBase(sk.pages, k + 1)
        data == b + DescLen
        offs == data + NStrips * StripLen
        cnts == offs + NStrips * 4
    IN  DescText(sk, k)
        \o [j \in 1..(NStrips * StripLen) |-> Pixel + k]
        \o (IF pk.tiled THEN <<>>
            ELSE LongArray(NStrips, data, StripLen)
                 \o LongArray(NStrips, StripLen, 0))
        \o Pack(3, TagNoSize)
        \o TagEntry(ImageDescription, ASCII, DescLen, b)
        \o (IF pk.tiled
            THEN TagEntry(TileOffsets, LONG, 1, data)
                 \o TagEntry(TileByteCounts, LONG, 1, NStrips * StripLen)
            ELSE TagEntry(StripOffsets, LONG, NStrips, offs)
                 \o TagEntry(StripByteCounts, LONG, NStrips, cnts))
        \o Pack(next, OffsetSize)

RECURSIVE PagesBytes(_, _)
PagesBytes(sk, k) ==
    IF k > Len(sk.pages) THEN <<>>
    ELSE PageBytes(sk, k) \o PagesBytes(sk, k + 1)
SlideBytes(sk) ==
    <<73, 73, 42, 0>> \o Pack(IfdBase(sk.pages, 1), OffsetSize)
    \o PagesBytes(sk, 1)

\* ---- delete_associated_image(slide_path, image_type), lines 240-344
ImageTypes == {"label", "macro"}
TextOf(image_type) == IF image_type = "label" THEN LabelText ELSE MacroText
\* [page for page in t.pages if image_type in page.description]
RECURSIVE PagesWith(_, _, _)
PagesWith(f, pages, text) ==
    IF pages = <<>> THEN <<>>
    ELSE (IF text \in DescriptionOf(f, Head(pages)) THEN <<Head(pages)>>
          ELSE <<>>) \o PagesWith(f, Tail(pages), text)
\* lines 256-267: the pages picked for removal.  A GT450 file is taken to
\* hold the label as its last page but one and the macro as its last page.
IsGT450(f) ==
    LET first == DescriptionOf(f, PageOffsets(f)[1])
    IN  AperioText \notin first /\ GT450Text \in first
\* t.pages[-2] of a file of one page raises IndexError
RaisesIndexError(f, image_type) ==
    IsGT450(f) /\ image_type = "label" /\ Len(PageOffsets(f)) < 2
\* (a variant that settles duplicates silently by taking the first match)
filtered_pages_First(f, image_type) ==
    LET pages == PageOffsets(f)
        found == PagesWith(f, pages, TextOf(image_type))
    IN  IF IsGT450(f)
        THEN (IF image_type = "label" THEN <<pages[Len(pages) - 1]>>
              ELSE <<pages[Len(pages)]>>)
        ELSE IF found = <<>> THEN <<>> ELSE <<Head(found)>>
\* (a variant that takes the last page for the label too)
filtered_pages_Last(f, image_type) ==
    LET pages == PageOffsets(f)
    IN  IF IsGT450(f) THEN <<pages[Len(pages)]>>
        ELSE PagesWith(f, pages, TextOf(image_type))
filtered_pages(f, image_type) ==
    LET pages == PageOffsets(f)
    IN  IF IsGT450(f)
        THEN (IF image_type = "label" THEN <<pages[Len(pages) - 1]>>
              ELSE <<pages[Len(pages)]>>)
        ELSE PagesWith(f, pages, TextOf(image_type))
\* line 306: the pages whose next pointer holds the page's offset
RECURSIVE PointingTo(_, _, _)
\* (a variant that also takes the page itself for a page pointing to it)
PointingTo_OrItself(f, pages, page) ==
    SelectSeq(pages, LAMBDA o : NextIfdValue(f, o) = page \/ o = page)
PointingTo(f, pages, page) ==
    IF pages = <<>> THEN <<>>
    ELSE (IF NextIfdValue(f, Head(pages)) = page THEN <<Head(pages)>>
          ELSE <<>>) \o PointingTo(f, Tail(pages), page)
\* lines 320-322: every strip overwritten with zero bytes
RECURSIVE ZeroStrips(_, _, _, _)
ZeroStrips(f, offsets, bytecounts, j) ==
    IF j > Len(offsets) \/ j > Len(bytecounts) THEN f
    ELSE ZeroStrips(WriteAt(f, offsets[j], Zeros(bytecounts[j])),
                    offsets, bytecounts, j + 1)
\* lines 326-328: for every tag, tag.count zero bytes at tag.valueoffset
RECURSIVE ZeroTags(_, _, _, _)
ZeroTags(parsed, f, page, k) ==
    IF k > NumTags(parsed, page) THEN f
    ELSE ZeroTags(parsed,
                  WriteAt(f, TagValueOffset(parsed, EntryAt(page, k)),
                          Zeros(TagCount(parsed, EntryAt(page, k)))),
                  page, k + 1)
\* line 332: the length of the IFD, its next pointer included
pagebytes_TooLong(f, page) ==
    (NextIfdOffset(f, page) - page) + OffsetSize + TagSize
pagebytes(f, page) == (NextIfdOffset(f, page) - page) + OffsetSize
\* line 342: what is written into the predecessor's next pointer
SpliceValue_Self(f, page) == page
SpliceValue(f, page) == NextIfdValue(f, page)
\* lines 314-342: the surgery on the picked page
Removed(f, page) ==
    LET previfd == PointingTo(f, PageOffsets(f), page)[1]
        offsets == TagValues(f, TagOf(f, page, StripOffsets))
        bytecounts == TagValues(f, TagOf(f, page, StripByteCounts))
        f1 == ZeroStrips(f, offsets, bytecounts, 1)
        f2 == ZeroTags(f, f1, page, 1)
        f3 == WriteAt(f2, page, Zeros(pagebytes(f, page)))
    IN  WriteAt(f3, NextIfdOffset(f, previfd),
                Pack(SpliceValue(f, page), OffsetSize))
\* lines 315-316: the page has the StripOffsets / StripByteCounts pair
Striped(f, page) ==
    HasTag(f, page, StripOffsets) /\ HasTag(f, page, StripByteCounts)
\* the bytes of the file when the KeyError of lines 315-316 is raised: the
\* lookups come before the first write of line 322
\* (a variant in which the loop over the tags came before the lookups)
BytesAtKeyError_TagsFirst(f, page) == ZeroTags(f, f, page, 1)
BytesAtKeyError(f, page) == f
\* The whole call on a file of bytes f: how it ends (out), the bytes it
\* leaves, and whether it closed the handle it opened (only line 344 closes)
delete_associated_image(f, image_type) ==
    IF RaisesIndexError(f, image_type)
    THEN [out |-> "IndexError", bytes |-> f, closed |-> FALSE]
    ELSE LET picked == filtered_pages(f, image_type)
         IN  IF Len(picked) > 1
             THEN [out |-> "duplicate", bytes |-> f, closed |-> FALSE]
             ELSE IF Len(picked) = 0
             THEN [out |-> "absent", bytes |-> f, closed |-> FALSE]
             ELSE IF PointingTo(f, PageOffsets(f), picked[1]) = <<>>
             THEN [out |-> "no_predecessor", bytes |-> f, closed |-> FALSE]
             ELSE IF ~Striped(f, picked[1])
             THEN [out |-> "KeyError",
                   bytes |-> BytesAtKeyError(f, picked[1]),
                   closed |-> FALSE]
             ELSE [out |-> "removed", bytes |-> Removed(f, picked[1]),
                   closed |-> TRUE]
\* the calls that end with an exception
Raised(out) == out \in {"IndexError", "duplicate", "no_predecessor", "KeyError"}

\* ===================================================================
\* deidentify_one / copy_and_strip on one file, followed byte by byte
\* ===================================================================
MaxRepeats == 2
\* a file that was at a destination name before the call
OldBytes == <<79, 76, 68>>
\* what a copy that failed half way leaves behind
PartialBytes == <<73, 73, 42, 0>>
\* the destination names taken before the call
TakenNames == {{}, {0, 1}, {0, 2}}
pipeline == <<disk, source_exists, manifest_len, locals, history>>

InitWorker ==
    /\ PipelineStart(0)
    /\ AsideOff
    /\ os_name \in {"posix", "nt"}
    /\ has_dir \in BOOLEAN
    /\ \E sk \in SlideKinds :
          /\ slide = SlideBytes(sk)
          /\ page_kind = [k \in 1..Len(sk.pages) |->
                            [offset |-> IfdBase(sk.pages, k),
                             mark |-> sk.pages[k].mark]]
    /\ \E taken \in TakenNames :
          tree = [k \in 0..MaxSuffix |->
                    IF k \in taken THEN OldBytes ELSE NoBytes]
    /\ entry = tree
    /\ open_handles = {}
    /\ wpc = "call"
    /\ newname = 0
    /\ copyop = NoCopyOp
    /\ exc = ""
    /\ escaped = FALSE
    /\ last = NoCall
    /\ repeats = 0

\* lines 402-415: the name copied to: the requested one if it is free,
\* otherwise name(ii) for the first ii >= 1 that is free
FreeIndexes == {k \in 1..MaxSuffix : tree[k] = NoBytes}
CopyTarget ==
    IF tree[0] = NoBytes THEN 0
    ELSE CHOOSE k \in FreeIndexes : \A m \in FreeIndexes : k <= m

\* copy_and_strip, lines 386-415: makedirs, the choice of the name, the copy
CopyAndStripBegins ==
    /\ wpc = "call"
    /\ \/ /\ ~has_dir
          \* os.makedirs('') raises before a name is chosen
          /\ exc' = "FileNotFoundError"
          /\ wpc' = "except"
          /\ UNCHANGED <<newname, copyop, tree>>
       \/ /\ has_dir
          /\ tree[0] # NoBytes => FreeIndexes # {}
          /\ newname' = CopyTarget
          /\ copyop' = [copyop EXCEPT !.dest = CopyTarget,
                                      !.renamed = (CopyTarget # 0)]
          /\ \/ /\ tree' = [tree EXCEPT ![CopyTarget] = slide]
                /\ wpc' = "label"
                /\ exc' = ""
             \/ /\ \E left \in {NoBytes, PartialBytes} :
                      tree' = [tree EXCEPT ![CopyTarget] = left]
                /\ wpc' = "except"
                /\ exc' = "OSError"
    /\ UNCHANGED <<pipeline, aside, os_name, slide, page_kind, has_dir,
                   open_handles, escaped, last, entry, repeats>>

\* one call delete_associated_image(name, image_type): the bytes it leaves
\* and the handle.  The handle is closed on line 344 only; after an
\* exception the traceback keeps it open, after the early return of line
\* 274 it is open until the interpreter collects it.
Call(name, image_type) ==
    LET r == delete_associated_image(tree[name], image_type)
    IN  /\ tree' = [tree EXCEPT ![name] = r.bytes]
        /\ \E open \in BOOLEAN :
              /\ r.closed => ~open
              /\ Raised(r.out) => open
              /\ open_handles' =
                    IF open THEN open_handles \cup {name} ELSE open_handles
              /\ last' = [image_type |-> image_type, name |-> name,
                          out |-> r.out, before |-> tree[name],
                          after |-> r.bytes, open |-> open]

\* copy_and_strip, lines 418-419
Strip(image_type, from, to) ==
    /\ wpc = from
    /\ Call(newname, image_type)
    /\ IF Raised(last'.out)
       THEN wpc' = "except" /\ exc' = last'.out /\ UNCHANGED copyop
       ELSE /\ wpc' = to /\ exc' = ""
            /\ copyop' = IF to = "returned"
                         THEN [copyop EXCEPT !.done = TRUE] ELSE copyop
    /\ UNCHANGED <<pipeline, aside, os_name, slide, page_kind, has_dir, newname,
                   escaped, entry, repeats>>

StripLabel == Strip("label", "label", "macro")
StripMacro == Strip("macro", "macro", "returned")

\* copy_and_strip, lines 421-430: the copy is removed.  os.remove of a file
\* that is not there is passed over; on Windows os.remove of a file with an
\* open handle raises PermissionError, which leaves copy_and_strip
RemoveBlocked ==
    tree[newname] # NoBytes /\ os_name = "nt" /\ newname \in open_handles
HandleFailure ==
    /\ wpc = "except"
    /\ tree' = IF RemoveBlocked THEN tree
               ELSE [tree EXCEPT ![newname] = NoBytes]
    /\ escaped' = RemoveBlocked
    /\ copyop' = [copyop EXCEPT !.failed = TRUE, !.failure_message = exc,
                                !.done = TRUE]
    /\ exc' = IF RemoveBlocked THEN "PermissionError" ELSE ""
    /\ wpc' = "returned"
    /\ UNCHANGED <<pipeline, aside, os_name, slide, page_kind, has_dir,
                   open_handles, newname, last, entry, repeats>>

\* deidentify_one, lines 561-576 (fail_fast off): what it returns
WorkerResult ==
    IF escaped
    THEN [destination |-> 0, status |-> "failed", error |-> exc]
    ELSE [destination |-> IF copyop.dest # -1 THEN copyop.dest ELSE 0,
          status |-> IF copyop.failed THEN "failed" ELSE "success",
          error |-> copyop.failure_message]

\* delete_associated_image run again on the redacted destination
Redact(image_type) ==
    /\ wpc = "returned"
    /\ WorkerResult.status = "success"
    /\ repeats < MaxRepeats
    /\ repeats' = repeats + 1
    /\ Call(newname, image_type)
    /\ UNCHANGED <<pipeline, aside, os_name, slide, page_kind, has_dir, wpc,
                   newname, copyop, exc, escaped, entry>>

NextWorker ==
    \/ CopyAndStripBegins
    \/ StripLabel
    \/ StripMacro
    \/ HandleFailure
    \/ \E image_type \in ImageTypes : Redact(image_type)

SpecWorker == InitWorker /\ [][NextWorker]_vars

\* ===================================================================
\* validate_deidentify_metadata and screen_filename on one file
\* ===================================================================
\* the description of the page at o, as the sequence of its bytes
DescriptionText(f, o) == TagValues(f, TagOf(f, o, ImageDescription))
\* the value that follows the key in a description ("Filename = ...")
ValueOf(text, key) ==
    LET at == CHOOSE n \in 1..Len(text) : text[n] = key
    IN  IF at < Len(text) THEN text[at + 1] ELSE 0
\* fn_and_imageid: where the 'Filename = ' and 'ImageID = ' fragments are
Fragments(text) ==
    {n \in 1..Len(text) : text[n] \in {FilenameText, ImageIDText}}
\* line 196, tag.overwrite(description.replace(fn_and_imageid[0],
\* updated_format[0])): the value of the first fragment becomes the ImageID
Overwritten(f, o) ==
    LET text == DescriptionText(f, o)
        first == CHOOSE n \in Fragments(text) :
                    \A m \in Fragments(text) : n <= m
        at == TagValueOffset(f, TagOf(f, o, ImageDescription))
    IN  WriteAt(f, at + first, <<ValueOf(text, ImageIDText)>>)
\* screen_filename(page, validation_mode), lines 144-196: what it returns
\* and the bytes of the file afterwards
screen_filename(f, o, validation_mode) ==
    LET text == DescriptionText(f, o)
        words == {text[n] : n \in 1..Len(text)}
    IN  IF FilenameText \notin words
        THEN [ret |-> "None", bytes |-> f]
        ELSE IF Cardinality(Fragments(text)) > 2
        THEN [ret |-> "ValueError", bytes |-> f]
        ELSE IF ImageIDText \notin words
        THEN [ret |-> "KeyError", bytes |-> f]
        ELSE IF ValueOf(text, FilenameText) = ValueOf(text, ImageIDText)
        THEN [ret |-> "True", bytes |-> f]
        ELSE IF validation_mode
        THEN [ret |-> "False", bytes |-> f]
        ELSE [ret |-> "None", bytes |-> Overwritten(f, o)]
\* lines 108-120: the loop over t.pages, each page screened in turn
RECURSIVE ScreenPages(_, _, _)
ScreenPages(f, pages, validate_mode) ==
    IF pages = <<>> THEN f
    ELSE LET r == screen_filename(f, Head(pages), validate_mode)
         IN  IF r.ret \in {"ValueError", "KeyError"} THEN r.bytes
             ELSE ScreenPages(r.bytes, Tail(pages), validate_mode)
\* _gt450_image_check, lines 216-231: a GT450 file of more than 5 pages is
\* reported as holding a label and a macro
TooManyPages(f) == IsGT450(f) /\ Len(PageOffsets(f)) > 5
\* validate_deidentify_metadata(svs_path, validate_mode), lines 65-142
validate_deidentify_metadata(f, validate_mode, through_all) ==
    LET pages == PageOffsets(f)
        seen(text) == \E n \in 1..Len(pages) : text \in DescriptionOf(f, pages[n])
    IN  [called |-> TRUE, through_all |-> through_all,
         validate_mode |-> validate_mode,
         before |-> f,
         after |-> ScreenPages(f, pages, validate_mode),
         clean_filename |->
            \E n \in 1..Len(pages) :
               screen_filename(f, pages[n], validate_mode).ret = "True",
         no_label |-> ~TooManyPages(f) /\ ~seen(LabelText),
         no_macro |-> ~TooManyPages(f) /\ ~seen(MacroText)]

\* the file the next call inspects: the slide, as the calls so far left it
Inspected == IF report.called THEN report.after ELSE slide

InitValidate ==
    /\ PipelineStart(0)
    /\ os_name = "posix" /\ has_dir = TRUE
    /\ \E sk \in SlideKinds, id_first \in BOOLEAN :
          /\ slide = SlideBytes([family |-> sk.family, clean |-> sk.clean,
                                 pages |-> sk.pages, id_first |-> id_first])
          /\ page_kind = [k \in 1..Len(sk.pages) |->
                            [offset |-> IfdBase(sk.pages, k),
                             mark |-> sk.pages[k].mark]]
    /\ tree = [k \in 0..MaxSuffix |-> NoBytes]
    /\ entry = tree
    /\ open_handles = {}
    /\ wpc = "validate"
    /\ newname = 0
    /\ copyop = NoCopyOp
    /\ exc = ""
    /\ escaped = FALSE
    /\ last = NoCall
    /\ repeats = 0
    /\ AsideOff

\* one call validate_deidentify_metadata(path, validate_mode)
Validate(validate_mode) ==
    /\ wpc = "validate"
    /\ report' = validate_deidentify_metadata(Inspected, validate_mode, FALSE)
    /\ UNCHANGED <<pipeline, worker, cli, upload, copying, table, race>>

\* validate_deidentify_metadata_all, lines 55-57: every location of the
\* manifest is passed to validate_deidentify_metadata(path)
ValidateAll ==
    /\ wpc = "validate"
    /\ report' = validate_deidentify_metadata(Inspected, FALSE, TRUE)
    /\ UNCHANGED <<pipeline, worker, cli, upload, copying, table, race>>

NextValidate ==
    \/ \E validate_mode \in BOOLEAN : Validate(validate_mode)
    \/ ValidateAll

SpecValidate == InitValidate /\ [][NextValidate]_vars

\* ---------------------------------------------------------------------
\* The `run` command of the command line (cli.py, run_command).  It builds
\* the configuration with load_config(..., max_files=max_files) (lines
\* 30-44); load_config (config.py, lines 79-95) takes keyword-only parameters
\* and max_files is not one of them, so the call raises TypeError before
\* run_pipeline is reached and the command ends with the traceback.
\* (failures: the rows of the status file that are not success when the
\* command ends)
RunCommand(dry_run, allow_partial) ==
    /\ pc = "idle"
    /\ cli' = [called |-> TRUE, dry_run |-> dry_run,
               allow_partial |-> allow_partial,
               outcome |-> "TypeError", exit_code |-> 1,
               failures |-> CountStatus(_load_existing_status(status_csv),
                                        FALSE)]
    /\ UNCHANGED <<pipeline, worker, report, upload, copying, table, race>>

\* runs of run_pipeline started by a caller that builds the configuration
\* itself, and `run` commands, over the same output directory
NextCli ==
    \/ NextLocal
    \/ \E dry_run \in BOOLEAN, allow_partial \in BOOLEAN :
          RunCommand(dry_run, allow_partial)

SpecCli == Init /\ [][NextCli]_vars

\* ---------------------------------------------------------------------
\* upload_file_to_s3(local_path, bucket, key, max_retries, backoff_seconds),
\* s3.py lines 13-45, followed attempt by attempt
MaxRetries == 3
MaxBackoff == 3
Uri == "s3://bucket/key"

\* (a variant that gives up one attempt earlier)
Exhausted_Early(attempts, max_retries) == attempts >= max_retries
\* line 32: if attempts > max_retries
Exhausted(attempts, max_retries) == attempts > max_retries
\* line 45: backoff_seconds * (2**(attempts - 1))
Backoff(backoff_seconds, attempts) == backoff_seconds * 2^(attempts - 1)

\* lines 22-24
UploadCall(max_retries, backoff_seconds) ==
    /\ upload.pc = "off"
    /\ upload' = [NoUpload EXCEPT !.pc = "try",
                                  !.max_retries = max_retries,
                                  !.backoff_seconds = backoff_seconds]
    /\ UNCHANGED <<pipeline, worker, report, cli, copying, table, race>>

\* lines 27-29: client.upload_file returns, the URI is returned
UploadSucceeds ==
    /\ upload.pc = "try"
    /\ upload' = [upload EXCEPT !.pc = "returned",
                                !.outcomes = Append(@, "ok"),
                                !.ret = Uri]
    /\ UNCHANGED <<pipeline, worker, report, cli, copying, table, race>>

\* lines 30-39: client.upload_file raises BotoCoreError or ClientError; the
\* attempt is counted, and past max_retries RuntimeError is raised
UploadFails ==
    /\ upload.pc = "try"
    /\ LET attempts == upload.attempts + 1 IN
       upload' = [upload EXCEPT
                    !.pc = IF Exhausted(attempts, upload.max_retries)
                           THEN "RuntimeError" ELSE "sleep",
                    !.attempts = attempts,
                    !.outcomes = Append(@, "transient")]
    /\ UNCHANGED <<pipeline, worker, report, cli, copying, table, race>>

\* client.upload_file raises something the except clause of line 30 does
\* not name (the local file is gone, say): it leaves upload_file_to_s3
UploadEscapes ==
    /\ upload.pc = "try"
    /\ upload' = [upload EXCEPT !.pc = "escaped",
                                !.outcomes = Append(@, "other")]
    /\ UNCHANGED <<pipeline, worker, report, cli, copying, table, race>>

\* lines 40-45: the warning, time.sleep, and back to the top of the loop
UploadSleeps ==
    /\ upload.pc = "sleep"
    /\ upload' = [upload EXCEPT
                    !.pc = "try",
                    !.slept = Append(@, Backoff(upload.backoff_seconds,
                                                upload.attempts))]
    /\ UNCHANGED <<pipeline, worker, report, cli, copying, table, race>>

UploadStep == UploadSucceeds \/ UploadFails \/ UploadEscapes \/ UploadSleeps

NextUpload ==
    \/ \E max_retries \in 0..MaxRetries, backoff_seconds \in 1..MaxBackoff :
          UploadCall(max_retries, backoff_seconds)
    \/ UploadSucceeds
    \/ UploadFails
    \/ UploadEscapes
    \/ UploadSleeps

\* client.upload_file returns or raises and time.sleep returns: a call that
\* can take a step takes one
SpecUpload == FirstStart(0) /\ [][NextUpload]_vars /\ WF_vars(UploadStep)

\* ---------------------------------------------------------------------
\* CopyOp (deidentification.py, lines 347-363) shared by threads that call
\* update(index, val) and read(), followed statement by statement
NThreads == 3
MaxUpdates == 3
MaxReads == 2
Threads == 1..NThreads
\* the keys of the dicts copy_and_strip passes to update (lines 403, 412,
\* 427, 430), in the order the for loop of line 355 meets them
Vals == {<<"dest">>, <<"dest", "renamed">>, <<"failed", "failure_message">>,
         <<"done">>}
\* the indexes update is called with: 0 is the record, 1 is past the list
Indexes == {0, 1}
InRange(index) == index + 1 \in DOMAIN op.value

Idle == [pc |-> "idle", index |-> 0, todo |-> <<>>, id |-> 0,
         cp |-> <<>>, last |-> ""]

\* copy.deepcopy(self.value), line 361: a new object, not a reference to
\* the list the CopyOp holds
deepcopy(v) == [alias |-> FALSE, val |-> v]
\* what the holder of a returned snapshot reads from it
Held(s) == IF s.alias THEN op.value ELSE s.val

\* (a variant whose acquire never waits)
CanAcquire_Always == TRUE
\* threading.Lock.acquire, lines 353 and 360: waits until the lock is free
CanAcquire == op.lock = Free

\* the list after a whole update of the record at index
Applied(v, index, keys, id) ==
    [v EXCEPT ![index + 1] =
        [k \in Fields |->
            IF \E n \in 1..Len(keys) : keys[n] = k THEN id ELSE v[index + 1][k]]]

\* a thread calls update(index, val)
CallUpdate(t, index, val) ==
    /\ threads[t].pc = "idle"
    /\ observed.calls < MaxUpdates
    /\ threads' = [threads EXCEPT ![t] =
                      [Idle EXCEPT !.pc = "update", !.index = index,
                                   !.todo = val, !.id = observed.calls + 1]]
    /\ observed' = [observed EXCEPT !.calls = @ + 1]
    /\ UNCHANGED <<pipeline, worker, report, cli, upload, op, table, race>>

\* line 353: self.lock.acquire().  From here on the update is under way: the
\* list as it is once the update is whole is noted in observed.atomic
UpdateAcquires(t) ==
    /\ threads[t].pc = "update"
    /\ CanAcquire
    /\ op' = [op EXCEPT !.lock = t]
    /\ threads' = [threads EXCEPT ![t].pc = "assign"]
    /\ LET whole == IF InRange(threads[t].index)
                    THEN Applied(observed.atomic, threads[t].index,
                                 threads[t].todo, threads[t].id)
                    ELSE observed.atomic IN
       observed' = [observed EXCEPT !.atomic = whole,
                                    !.whole = @ \cup {whole}]
    /\ UNCHANGED <<pipeline, worker, report, cli, upload, table, race>>

\* lines 355-356, one turn of the loop: self.value[index][key] = value;
\* self.value[index] raises IndexError past the end of the list
UpdateAssigns(t) ==
    /\ threads[t].pc = "assign"
    /\ LET index == threads[t].index
           key == Head(threads[t].todo) IN
       IF InRange(index)
       THEN /\ op' = [op EXCEPT !.value[index + 1][key] = threads[t].id]
            /\ threads' = [threads EXCEPT
                             ![t].todo = Tail(@),
                             ![t].pc = IF Len(threads[t].todo) = 1
                                       THEN "release" ELSE "assign"]
       ELSE /\ threads' = [threads EXCEPT ![t].pc = "release",
                                          ![t].last = "IndexError"]
            /\ UNCHANGED op
    /\ UNCHANGED <<pipeline, worker, report, cli, upload, observed, table, race>>

\* lines 357-358: finally: self.lock.release(), and update returns or the
\* IndexError goes on to the caller
UpdateReleases(t) ==
    /\ threads[t].pc = "release"
    /\ op' = [op EXCEPT !.lock = Free]
    /\ threads' = [threads EXCEPT ![t] =
                      [Idle EXCEPT !.last = IF threads[t].last = "IndexError"
                                            THEN "IndexError" ELSE "update"]]
    /\ UNCHANGED <<pipeline, worker, report, cli, upload, observed, table, race>>

\* a thread calls read()
CallRead(t) ==
    /\ threads[t].pc = "idle"
    /\ Len(observed.snapshots)
          + Cardinality({u \in Threads :
                           threads[u].pc \in {"read", "copy", "return"}})
          < MaxReads
    /\ threads' = [threads EXCEPT ![t] = [Idle EXCEPT !.pc = "read"]]
    /\ UNCHANGED <<pipeline, worker, report, cli, upload, op, observed, table, race>>

\* line 360: self.lock.acquire()
ReadAcquires(t) ==
    /\ threads[t].pc = "read"
    /\ CanAcquire
    /\ op' = [op EXCEPT !.lock = t]
    /\ threads' = [threads EXCEPT ![t].pc = "copy"]
    /\ UNCHANGED <<pipeline, worker, report, cli, upload, observed, table, race>>

\* line 361: cp = copy.deepcopy(self.value)
ReadCopies(t) ==
    /\ threads[t].pc = "copy"
    /\ threads' = [threads EXCEPT ![t].cp = deepcopy(op.value),
                                  ![t].pc = "return"]
    /\ UNCHANGED <<pipeline, worker, report, cli, upload, op, observed, table, race>>

\* lines 362-363: self.lock.release(); return cp
ReadReturns(t) ==
    /\ threads[t].pc = "return"
    /\ op' = [op EXCEPT !.lock = Free]
    /\ observed' = [observed EXCEPT !.snapshots = Append(@, threads[t].cp)]
    /\ threads' = [threads EXCEPT ![t] = [Idle EXCEPT !.last = "read"]]
    /\ UNCHANGED <<pipeline, worker, report, cli, upload, table, race>>

InitCopyOp ==
    /\ PipelineStart(0)
    /\ WorkerOff
    /\ report = NoReport
    /\ cli = NoCommand
    /\ upload = NoUpload
    /\ table = NoTable
    /\ race = NoRace
    /\ op = NewCopyOp
    /\ threads = [t \in Threads |-> Idle]
    /\ observed = [snapshots |-> <<>>, whole |-> {NewCopyOp.value},
                   atomic |-> NewCopyOp.value, calls |-> 0]

NextCopyOp ==
    \E t \in Threads :
        \/ \E index \in Indexes, val \in Vals : CallUpdate(t, index, val)
        \/ UpdateAcquires(t)
        \/ UpdateAssigns(t)
        \/ UpdateReleases(t)
        \/ CallRead(t)
        \/ ReadAcquires(t)
        \/ ReadCopies(t)
        \/ ReadReturns(t)

SpecCopyOp == InitCopyOp /\ [][NextCopyOp]_vars

\* ---------------------------------------------------------------------
\* read_manifest and build_source_dest_df (pipeline.py, lines 59-92) on a
\* manifest file
MaxRows == 2
\* line 18
REQUIRED_MANIFEST_COLUMNS ==
    {"location", "rid", "specnum_formatted", "stain", "sample_id"}
\* the text of the cells of a manifest file
Locations == {"", "NA", "b.svs", "/data/a.svs"}
Absolute == {"/data/a.svs"}
Lines ==
    [location : Locations, rid : {"R1", "R2"},
     specnum_formatted : {"S1", "S2"}, stain : {"HE", "IHC"},
     sample_id : {"7316"}]
\* the header of the file: every required column but at most one
Headers ==
    {REQUIRED_MANIFEST_COLUMNS}
        \cup {REQUIRED_MANIFEST_COLUMNS \ {c} : c \in REQUIRED_MANIFEST_COLUMNS}
OutDir == "out"

\* pandas.read_csv, line 60, with its default na_values: an empty field and
\* the texts "NA", "N/A", "NULL", "null", "NaN", "nan", "None", .. are read
\* as a missing value
NaValues == {"", "NA", "N/A", "NULL", "null", "NaN", "nan", "None"}
Cell(text) == IF text \in NaValues THEN NaN ELSE text
\* the frame: one row per line, labelled with the number of the line
read_csv(columns, lines) ==
    [j \in 1..Len(lines) |->
        [index |-> j,
         location |-> Cell(lines[j].location),
         rid |-> Cell(lines[j].rid),
         specnum_formatted |-> Cell(lines[j].specnum_formatted),
         stain |-> Cell(lines[j].stain),
         sample_id |-> Cell(lines[j].sample_id)]]

\* lines 67-73: an absolute location is kept, a relative one that exists
\* from the working directory is resolved against it, any other is put
\* under the directory of the manifest
_resolve_location(value, in_cwd) ==
    IF value \in Absolute THEN value
    ELSE IF value \in in_cwd THEN "/cwd/" \o value
    ELSE "manifest_dir/" \o value

\* line 64: df[df["location"].notna()]
notna(row) == row.location # NaN
Kept(df) == SelectSeq(df, notna)

\* read_manifest(path), lines 59-76
read_manifest(columns, lines, in_cwd) ==
    LET df == read_csv(columns, lines)
        missing == REQUIRED_MANIFEST_COLUMNS \ columns
        kept == Kept(df)
    IN  IF missing # {}
        THEN [raised |-> "ValueError", df |-> <<>>]
        ELSE [raised |-> "",
              df |-> [j \in 1..Len(kept) |->
                        [kept[j] EXCEPT
                           !.location = _resolve_location(@, in_cwd)]]]

\* _stable_hash(value)[:16], lines 79-80 and 85: the digest is kept as a
\* term over its input
_stable_hash(value) == "sha256(" \o value \o ")"
\* (a variant that also hashes the stain)
destination_basename_WithStain(row) ==
    [prefix |-> "svs_",
     hashed |-> _stable_hash(row.rid \o "|" \o row.specnum_formatted
                                \o "|" \o row.stain),
     suffix |-> ".svs"]
\* destination_basename(row), lines 83-86
destination_basename(row) ==
    [prefix |-> "svs_",
     hashed |-> _stable_hash(row.rid \o "|" \o row.specnum_formatted),
     suffix |-> ".svs"]

\* build_source_dest_df(df, out_dir), lines 89-92: a path is the list of its
\* directories and its file name
build_source_dest_df(df, out_dir) ==
    [j \in 1..Len(df) |->
        [index |-> df[j].index,
         source |-> df[j].location,
         destination |-> [parent |-> <<out_dir, "svs">>,
                          name |-> destination_basename(df[j])]]]

ManifestFiles ==
    UNION {[1..n -> Lines] : n \in 0..MaxRows}

\* a manifest file is written
WriteManifest(columns, lines, in_cwd) ==
    /\ table.pc = "off"
    /\ table' = [NoTable EXCEPT !.pc = "file", !.columns = columns,
                                !.lines = lines, !.in_cwd = in_cwd]
    /\ UNCHANGED <<pipeline, worker, report, cli, upload, copying, race>>

\* run_pipeline, line 165
ReadManifest ==
    /\ table.pc = "file"
    /\ LET out == read_manifest(table.columns, table.lines, table.in_cwd) IN
       table' = [table EXCEPT
                   !.pc = IF out.raised = "" THEN "read" ELSE "raised",
                   !.raised = out.raised,
                   !.df = out.df]
    /\ UNCHANGED <<pipeline, worker, report, cli, upload, copying, race>>

\* run_pipeline, line 166
BuildSourceDest ==
    /\ table.pc = "read"
    /\ table' = [table EXCEPT
                   !.pc = "built",
                   !.plan = build_source_dest_df(table.df, OutDir)]
    /\ UNCHANGED <<pipeline, worker, report, cli, upload, copying, race>>

NextManifest ==
    \/ \E columns \in Headers, lines \in ManifestFiles,
          in_cwd \in {{}, {"b.svs"}} :
          WriteManifest(columns, lines, in_cwd)
    \/ ReadManifest
    \/ BuildSourceDest

SpecManifest == FirstStart(0) /\ [][NextManifest]_vars

\* ---------------------------------------------------------------------
\* Two calls of copy_and_strip (deidentification.py, lines 371-431) at the
\* same time, with the same requested destination, each followed from one
\* call of the operating system to the next.  Name 0 is the requested name,
\* name k is the same name with suffix "(k)".
Copiers == {1, 2}
Names == 0..MaxSuffix
\* a file: who copied it there (0: it was there before), how far its
\* redaction has gone, and who has written to it
NoCopy == [by |-> 0, stage |-> "absent", hands |-> {}]
OldFile == [by |-> 0, stage |-> "old", hands |-> {}]
Waiting == [pc |-> "idle", ii |-> 0, newname |-> 0, status |-> ""]

\* lines 386-397: the call begins, the directory is made
RaceCall(t) ==
    /\ race.at[t].pc = "idle"
    /\ race' = [race EXCEPT !.at[t].pc = "exists"]
    /\ UNCHANGED <<pipeline, worker, report, cli, upload, copying, table>>

\* lines 402 and 410: os.path.exists of the requested name, then of
\* name(1), name(2), ..; the first name that does not exist is taken
RaceExists(t) ==
    /\ race.at[t].pc = "exists"
    /\ LET ii == race.at[t].ii IN
       IF race.fs[ii].stage = "absent"
       THEN race' = [race EXCEPT !.at[t].newname = ii, !.at[t].pc = "copy"]
       ELSE /\ ii < MaxSuffix
            /\ race' = [race EXCEPT !.at[t].ii = ii + 1]
    /\ UNCHANGED <<pipeline, worker, report, cli, upload, copying, table>>

\* lines 404 and 413: shutil.copyfile(oldname, newname) opens newname for
\* writing, whatever is there, and writes the source into it
RaceCopy(t) ==
    /\ race.at[t].pc = "copy"
    /\ LET name == race.at[t].newname IN
       race' = [race EXCEPT
                  !.fs[name] = [by |-> t, stage |-> "copied",
                                   hands |-> race.fs[name].hands \cup {t}],
                  !.at[t].pc = "label"]
    /\ UNCHANGED <<pipeline, worker, report, cli, upload, copying, table>>

\* lines 418-419: delete_associated_image(newname, ..) opens the file that is
\* at newname now: it removes the page, or raises; it raises when the file is
\* gone
RaceStrip(t, image_type, to) ==
    /\ race.at[t].pc = image_type
    /\ LET name == race.at[t].newname IN
       \/ /\ race.fs[name].stage # "absent"
          /\ race' = [race EXCEPT
                        !.fs[name].stage = image_type,
                        !.fs[name].hands = @ \cup {t},
                        !.at[t].pc = to,
                        !.at[t].status = IF to = "done" THEN "success"
                                         ELSE ""]
       \/ race' = [race EXCEPT !.at[t].pc = "except"]
    /\ UNCHANGED <<pipeline, worker, report, cli, upload, copying, table>>

\* lines 421-428: os.remove(newname), whoever made the file
RaceExcept(t) ==
    /\ race.at[t].pc = "except"
    /\ race' = [race EXCEPT !.fs[race.at[t].newname] = NoCopy,
                            !.at[t].pc = "done",
                            !.at[t].status = "failed"]
    /\ UNCHANGED <<pipeline, worker, report, cli, upload, copying, table>>

InitRace ==
    /\ PipelineStart(0)
    /\ WorkerOff
    /\ report = NoReport
    /\ cli = NoCommand
    /\ upload = NoUpload
    /\ CopyOpOff
    /\ table = NoTable
    /\ \E first \in {NoCopy, OldFile} :
          race = [fs |-> [k \in Names |-> IF k = 0 THEN first ELSE NoCopy],
                  at |-> [t \in Copiers |-> Waiting]]

NextRace ==
    \E t \in Copiers :
        \/ RaceCall(t)
        \/ RaceExists(t)
        \/ RaceCopy(t)
        \/ RaceStrip(t, "label", "macro")
        \/ RaceStrip(t, "macro", "done")
        \/ RaceExcept(t)

SpecRace == InitRace /\ [][NextRace]_vars

\* ===================================================================
\* C11 .. C12: the worker's failure and fail_fast
\* ===================================================================
\* the worker reported a failure for the pair being handled
WorkerFailed == pc = "post" /\ result.status = "failed"
\* the step the orchestrator takes is not the process being killed
NotKilled == ~(pc' = "idle" /\ last_exit' = "interrupted")
\* the failed StatusRecord of the pair being handled, with the exception text
FailedRow(r) ==
    /\ r.destination = result.destination
    /\ r.status = "failed"
    /\ r.error = result.error /\ r.error # ""

\* C11: with fail_fast off, when the worker fails for a pair, the orchestrator
\* appends a failed StatusRecord carrying the exception text, persists the
\* accumulated list and moves on to the next pair; the run is not aborted.
C11_WorkerFailureDoesNotAbort ==
    [][(WorkerFailed /\ ~cfg.fail_fast /\ NotKilled)
          => /\ pc' = "loop" /\ i' = i + 1
             /\ Len(status_rows') = Len(status_rows) + 1
             /\ FailedRow(status_rows'[Len(status_rows')])
             /\ status_csv' = File(ToCsv(status_rows'))]_vars

\* C12: with fail_fast on, the first worker failure is re-raised out of
\* run_pipeline: the failure is never turned into a StatusRecord, no later
\* pair of the manifest is handled, and the invocation writes no run journal.
C12_FailFastHalts ==
    /\ cfg.fail_fast
          => /\ ~WorkerFailed
             /\ \A j \in 1..Len(status_rows) :
                   status_rows[j].status = "failed"
                      => HasPrevious(existing_status, status_rows[j].destination)
    /\ (pc = "idle" /\ last_exit = "fail_fast_raised")
          => /\ cfg.fail_fast
             /\ \E p \in Pairs :
                   /\ branch[p] = "raised" /\ p \in worker_calls
                   /\ \A q \in Pairs : q > p => branch[q] = "none"
                   /\ \A q \in Pairs : q < p => branch[q] # "raised"
             /\ ~(run_json.exists /\ run_json.run = runs)

\* witness of C12: the worker failed for the first pair of a fail_fast run,
\* the run ended there with the second pair not handled
C12_Witness ==
    /\ pc = "idle" /\ last_exit = "fail_fast_raised"
    /\ branch[1] = "raised" /\ branch[2] = "none"
    /\ 1 \in worker_calls

\* ===================================================================
\* C13 .. C16: copy_and_strip and the handle of delete_associated_image
\* ===================================================================
\* copy_and_strip (or the exception it let through) has ended
Returned == wpc = "returned"
\* the copy was made and the removal of a slot then raised
StripRaised ==
    /\ Returned /\ repeats = 0
    /\ last.name = newname /\ Raised(last.out)

\* C13: when copy_and_strip fails after the copy was made, because the
\* removal of a slot raises, the file at the copied path no longer exists
\* when copy_and_strip is left, and a file that was at the requested
\* destination before the call is unchanged.
C13_FailedCopyRemoved ==
    StripRaised => tree[newname] = NoBytes /\ tree[0] = entry[0]

\* a file was at the requested destination before the call
DestinationTaken == entry[0] # NoBytes
\* name(k) is the first name(1), name(2), ... that was free before the call
FirstFree(k) ==
    /\ k \in 1..MaxSuffix /\ entry[k] = NoBytes
    /\ \A m \in 1..(k - 1) : entry[m] # NoBytes

\* C14: copy_and_strip never overwrites an existing file: every file that
\* was there before the call is still there with the same bytes; when the
\* requested destination exists the copy goes to name(i) for the smallest
\* i >= 1 such that name(i) does not exist; and the result reports the path
\* that was copied to.
C14_NeverOverwrites ==
    /\ \A k \in 0..MaxSuffix : entry[k] # NoBytes => tree[k] = entry[k]
    /\ (Returned /\ DestinationTaken) => FirstFree(copyop.dest)
    /\ (Returned /\ copyop.dest # -1)
          => WorkerResult.destination = copyop.dest

\* the pages of f whose Filename fragment differs from the ImageID fragment
Unscrubbed(f) ==
    {n \in 1..Len(PageOffsets(f)) :
        LET text == DescriptionText(f, PageOffsets(f)[n])
        IN  /\ \E m \in 1..Len(text) : text[m] = FilenameText
            /\ \E m \in 1..Len(text) : text[m] = ImageIDText
            /\ ValueOf(text, FilenameText) # ValueOf(text, ImageIDText)}

\* C15: after the worker returns success, the Filename Scrubber has run on
\* every page: every page of the destination whose description holds a
\* Filename fragment has a Filename value equal to its ImageID value.
C15_FilenameScrubbed ==
    (Returned /\ WorkerResult.status = "success")
        => Unscrubbed(tree[WorkerResult.destination]) = {}

\* delete_associated_image has been called and has returned or raised
Called == last.name # -1

\* C16: whenever delete_associated_image returns or raises (page removed, no
\* page of the type, duplicate pages, no predecessor, tiled page), the
\* handle it opened on the slide is closed: no handle is open past the call.
C16_HandleClosed ==
    Called => (~last.open /\ last.name \notin open_handles)

\* ===================================================================
\* C17 .. C20: the surgery of delete_associated_image on the bytes
\* ===================================================================
\* the latest call removed a page
RemovedPage == Called /\ last.out = "removed"
\* the page the latest call picked: its IFD offset in the file as it was
Target == filtered_pages(last.before, last.image_type)[1]

\* C17: after a successful removal, a directory walk from the header visits
\* exactly the pages it visited before minus the removed one, in the same
\* order, and never reaches the removed page's former offset.
C17_WalkSkipsRemoved ==
    RemovedPage
        => /\ PageOffsets(last.after)
                = SelectSeq(PageOffsets(last.before), LAMBDA o : o # Target)
           /\ \A n \in 1..Len(PageOffsets(last.after)) :
                 PageOffsets(last.after)[n] # Target

\* witness of C17: a page was removed from the middle of the chain, a page
\* before it and a page after it are still visited
C17_Witness ==
    /\ RemovedPage
    /\ NextIfdValue(last.before, Target) # 0
    /\ Len(PageOffsets(last.after)) >= 2
    /\ Len(PageOffsets(last.before)) = Len(PageOffsets(last.after)) + 1

\* The bytes that belong to the page whose IFD is at o in the slide as it was
\* copied: its description, pixel data, strip arrays and IFD lie between the
\* end of the IFD before it (or of the header) and the end of its own IFD.
IfdEnd(o) == NextIfdOffset(slide, o) + OffsetSize
PageStart(o) ==
    LET pages == PageOffsets(slide)
        n == CHOOSE m \in 1..Len(pages) : pages[m] = o
    IN  IF n = 1 THEN HeaderSize ELSE IfdEnd(pages[n - 1])
OwnBytes(o) == PageStart(o)..(IfdEnd(o) - 1)
\* the field of the predecessor that the splice rewrites
SplicedField ==
    LET previfd == PointingTo(last.before, PageOffsets(last.before), Target)[1]
        at == NextIfdOffset(last.before, previfd)
    IN  at..(at + OffsetSize - 1)
\* the file offsets at which the latest call changed a byte
Changed ==
    {b \in 0..(Len(last.before) - 1) : last.after[b + 1] # last.before[b + 1]}

\* C18: delete_associated_image never changes the length of the file, and
\* the only bytes it changes outside the removed page are those of the
\* predecessor's next-pointer field: every other byte of the header and of
\* the surviving pages is as it was.
C18_OnlyTargetAndSplice ==
    Called
        => /\ Len(last.after) = Len(last.before)
           /\ Changed # {} => RemovedPage
           /\ RemovedPage => Changed \subseteq (OwnBytes(Target) \cup SplicedField)

\* witness of C18: a page with a surviving page on either side was removed
\* and bytes of it were changed
C18_Witness ==
    /\ RemovedPage
    /\ NextIfdValue(last.before, Target) # 0
    /\ Changed \cap OwnBytes(Target) # {}
    /\ Len(last.after) = Len(slide)

\* the file offsets of the strips of the page at o
StripBytesOf(f, o) ==
    LET offsets == TagValues(f, TagOf(f, o, StripOffsets))
        bytecounts == TagValues(f, TagOf(f, o, StripByteCounts))
    IN  UNION {offsets[j]..(offsets[j] + bytecounts[j] - 1) :
                  j \in 1..Len(offsets)}
\* the tags of the page at o whose value does not fit in the entry
OutOfLine(f, o) ==
    {e \in Entries(f, o) :
        TagCount(f, e) * ElementSize(TagType(f, e)) > OffsetSize}
\* the file offsets of the out-of-line values of the page at o: for each
\* tag, count elements of the size of its type
ValueBytesOf(f, o) ==
    UNION {TagValueOffset(f, e)..
              (TagValueOffset(f, e)
                  + TagCount(f, e) * ElementSize(TagType(f, e)) - 1) :
           e \in OutOfLine(f, o)}
\* the file offsets of the IFD at o: tag count, tag table, next pointer
IfdBytesOf(f, o) == o..(NextIfdOffset(f, o) + OffsetSize - 1)

\* C19: after a successful removal every byte of each strip of the removed
\* page, every byte of each of its tags' out-of-line values (element count
\* times element size) and every byte of its IFD is zero.
C19_RemovedPageZeroed ==
    RemovedPage
        => \A b \in StripBytesOf(last.before, Target)
                      \cup ValueBytesOf(last.before, Target)
                      \cup IfdBytesOf(last.before, Target) :
              last.after[b + 1] = 0

\* what the page whose IFD is at o holds: "image", "label" or "macro"
KindOf(o) ==
    LET n == CHOOSE m \in 1..Len(page_kind) : page_kind[m].offset = o
    IN  page_kind[n].mark
\* the file f holds no label page and no macro page
NoAssociated(f) ==
    \A n \in 1..Len(PageOffsets(f)) : KindOf(PageOffsets(f)[n]) = "image"

\* C20: on a file of either scanner family that holds no label page and no
\* macro page (one that never had them, or one from which both were removed),
\* label removal and macro removal, run any number of times, raise no error
\* and leave every byte of the file as it was.
C20_RemovalIdempotent ==
    (Called /\ NoAssociated(last.before))
        => ~Raised(last.out) /\ last.after = last.before

\* ===================================================================
\* C21 .. C22: the failures of delete_associated_image
\* ===================================================================
\* the pages of f whose description holds the word of the image type
Matching(f, image_type) == PagesWith(f, PageOffsets(f), TextOf(image_type))

\* C21: under the standard strategy (pages picked by the text of their
\* description), when more than one page's description holds the requested
\* word, delete_associated_image fails with the duplicate error and has
\* written no byte of the file.
C21_DuplicateFails ==
    (Called /\ ~IsGT450(last.before)
        /\ Len(Matching(last.before, last.image_type)) > 1)
        => last.out = "duplicate" /\ last.after = last.before

\* witness of C21: a call on a file of the standard strategy with two pages
\* of the requested type has ended
C21_Witness ==
    /\ Called /\ ~IsGT450(last.before)
    /\ Len(Matching(last.before, last.image_type)) = 2
    /\ last.out = "duplicate"

\* the latest call picked exactly one page
OnePicked ==
    /\ Called /\ ~RaisesIndexError(last.before, last.image_type)
    /\ Len(filtered_pages(last.before, last.image_type)) = 1

\* C22: when the one page picked is tiled (it has no StripOffsets /
\* StripByteCounts pair), delete_associated_image fails, and no byte of the
\* file has been modified when it fails.
C22_TiledFailsUntouched ==
    (OnePicked /\ ~Striped(last.before, Target))
        => Raised(last.out) /\ last.after = last.before

\* witness of C22: the page picked is tiled and has a predecessor, and the
\* call failed at the lookup of its strips
C22_Witness ==
    /\ OnePicked /\ ~Striped(last.before, Target)
    /\ HasTag(last.before, Target, TileOffsets)
    /\ last.out = "KeyError"

\* ===================================================================
\* C23: the validation query
\* ===================================================================
\* C23: validate_deidentify_metadata, also when it is called through
\* validate_deidentify_metadata_all, never modifies the file it inspects:
\* the bytes of the file after the call are its bytes before the call.
C23_ValidationReadOnly ==
    report.called => report.after = report.before

\* ===================================================================
\* C24 .. C28: dry runs, the life of a StatusRecord, the journal, the start
\* ===================================================================
\* the latest invocation was a dry run and has returned
DryRunEnded == pc = "idle" /\ last_exit = "dry_run"
\* the lines of the status file written for the destination of pair p
LinesOf(f, p) ==
    {j \in 1..Len(f.rows) : f.rows[j].destination = Destination(p)}

Persisted(f) == _load_existing_status(f)
\* the record of pair p is in the file after a step as it was before it
KeptAsItWas(before, after, p) ==
    /\ HasPrevious(Persisted(after), Destination(p))
    /\ Previous(Persisted(after), Destination(p))
          = Previous(Persisted(before), Destination(p))

\* C25: across any sequence of runs over the same output directory (dry runs,
\* capped runs, runs with or without resume), a StatusRecord persisted for a
\* destination is neither altered nor dropped from the status file unless the
\* worker is invoked for that pair in the run that rewrites the file.
C25_RecordsOutliveRuns ==
    [][\A p \in 1..manifest_len :
          HasPrevious(Persisted(status_csv), Destination(p))
             => \/ KeptAsItWas(status_csv, status_csv', p)
                \/ p \in worker_calls']_vars

\* the latest invocation was a non-dry run that returned
RunCompleted == pc = "idle" /\ last_exit = "completed"
\* the StatusRecords with (ok) or without (~ok) status success
WithStatus(rows, ok) ==
    {j \in 1..Len(rows) : (rows[j].status = "success") = ok}
Deferred == {p \in 1..manifest_len : branch[p] = "deferred"}

\* C26: at the end of every completed non-dry run, the success count of the
\* run journal is the number of final StatusRecords with status success, its
\* failed count is the number with any other status, the two add up to the
\* number of final StatusRecords, and that number is the number of manifest
\* rows when the processing cap deferred no pair.
C26_JournalCounts ==
    RunCompleted
        => LET rows == Persisted(status_csv) IN
           /\ run_json.exists /\ ~run_json.dry_run /\ run_json.run = runs
           /\ run_json.success = Cardinality(WithStatus(rows, TRUE))
           /\ run_json.failed = Cardinality(WithStatus(rows, FALSE))
           /\ run_json.success + run_json.failed = Len(rows)
           /\ Deferred = {} => Len(rows) = manifest_len

\* a completed run whose final StatusRecords hold a success and a failure
C26_Witness ==
    /\ RunCompleted
    /\ Deferred = {}
    /\ run_json.success > 0
    /\ run_json.failed > 0

\* a `run` command that was not asked for a dry run has ended
CommandEnded == cli.called /\ ~cli.dry_run

\* C27: a `run` command that is not a dry run reports "completed with
\* failures" and exits with code 2 exactly when the status file it leaves has
\* a row whose status is not success and allow_partial is off; otherwise it
\* reports plain completion and exits with code 0.
C27_RunCommandReports ==
    CommandEnded
        => IF cli.failures > 0 /\ ~cli.allow_partial
           THEN /\ cli.outcome = "Pipeline completed with failures."
                /\ cli.exit_code = 2
           ELSE /\ cli.outcome = "Pipeline completed."
                /\ cli.exit_code = 0

\* run_pipeline is entered with local retention off, no bucket, no dry run
EnteredWithoutTarget ==
    /\ pc = "idle"
    /\ runs' = runs + 1
    /\ ~cfg'.keep_local /\ cfg'.s3_bucket = NoBucket /\ ~cfg'.dry_run

\* C28: with keep_local off, no bucket and no dry run, run_pipeline fails at
\* its start: the manifest is not read, no destination file is created, no
\* worker is invoked, and no status, derived or journal file is written.
C28_RejectedAtStart ==
    [][EnteredWithoutTarget
          => /\ pc' = "idle" /\ last_exit' = "rejected"
             /\ ~start'.manifest_read
             /\ ~start'.derived_written
             /\ files' = files
             /\ worker_calls' = {}
             /\ status_csv' = status_csv
             /\ run_json' = run_json
             /\ s3_csv' = s3_csv]_vars

\* a rejected run over an output directory that an earlier run filled
C28_Witness ==
    /\ pc = "idle" /\ last_exit = "rejected"
    /\ Rejects(cfg)
    /\ files # {}
    /\ status_csv.exists
    /\ run_json.exists /\ run_json.run < runs

\* ===================================================================
\* C29: the retries of upload_file_to_s3
\* ===================================================================
UploadEnded == upload.pc \in {"returned", "RuntimeError", "escaped"}
\* the attempts before the latest one all failed with a retried error
FailedBefore(n) == \A k \in 1..(n - 1) : upload.outcomes[k] = "transient"

\* C29: a call of upload_file_to_s3 with retry limit R ends: it makes at most
\* R + 1 attempts, returns the URI at the first attempt that succeeds, raises
\* RuntimeError when R + 1 attempts in a row failed with a retried error, and
\* between the k-th failed attempt and the next it sleeps
\* backoff_seconds * 2^(k-1).
C29_UploadTerminates ==
    /\ [](LET R == upload.max_retries
              n == Len(upload.outcomes) IN
          upload.pc # "off"
             => /\ n <= R + 1
                /\ FailedBefore(n)
                /\ upload.pc = "returned"
                      <=> n > 0 /\ upload.outcomes[n] = "ok"
                /\ upload.pc = "returned" => upload.ret = Uri
                /\ upload.pc = "RuntimeError"
                      <=> n = R + 1 /\ upload.outcomes[n] = "transient"
                /\ Len(upload.slept)
                      = IF upload.pc = "try" THEN n
                        ELSE IF upload.pc = "sleep" THEN n - 1
                        ELSE IF upload.pc = "RuntimeError" THEN R
                        ELSE n - 1
                /\ \A k \in 1..Len(upload.slept) :
                      upload.slept[k]
                         = upload.backoff_seconds * 2^(k - 1))
    /\ (upload.pc = "try") ~> UploadEnded

\* every attempt allowed was made and failed, with a sleep before each retry
C29_Witness ==
    /\ upload.pc = "RuntimeError"
    /\ upload.max_retries >= 2
    /\ Len(upload.slept) = upload.max_retries

\* ===================================================================
\* C30: CopyOp under concurrent update() and read()
\* ===================================================================
Snapshots == 1..Len(observed.snapshots)
\* a thread is between two assignments of an update of two fields
MidUpdate(t) ==
    /\ threads[t].pc = "assign"
    /\ threads[t].todo \in {<<"renamed">>, <<"failure_message">>}
    /\ InRange(threads[t].index)

\* C30: a snapshot that read() returned while update(index, val) calls were
\* running holds, of every update call, all the fields it assigns or none
\* (it is the list as it was between whole updates); what is done to the
\* CopyOp later does not change a snapshot that was returned; and a thread
\* that has returned from update or read does not hold the lock, which is
\* free when no call is in progress.
C30_SnapshotsWhole ==
    /\ [](\A k \in Snapshots : Held(observed.snapshots[k]) \in observed.whole)
    /\ [][\A k \in Snapshots :
             Held(observed.snapshots[k])' = Held(observed.snapshots[k])]_vars
    /\ [](\A t \in Threads : threads[t].pc = "idle" => op.lock # t)
    /\ []((\A t \in Threads : threads[t].pc = "idle") => op.lock = Free)

\* read() returned a snapshot holding both fields of an update, and another
\* update is between its two assignments
C30_Witness ==
    /\ \E k \in Snapshots :
          LET record == Held(observed.snapshots[k])[1] IN
          record["dest"] > 0 /\ record["renamed"] = record["dest"]
    /\ \E t \in Threads : MidUpdate(t)

\* ===================================================================
\* C31 .. C32: the manifest and the destinations
\* ===================================================================
ManifestRead == table.pc \in {"read", "raised", "built"}
\* the numbers of the lines of the file whose location field is not empty
NonEmpty == {j \in 1..Len(table.lines) : table.lines[j].location # ""}

\* C31: read_manifest raises an error for a manifest that lacks one of the
\* required columns; otherwise it returns exactly the rows whose location is
\* not empty, in the order they have in the file.
C31_ReadManifest ==
    ManifestRead
        => IF REQUIRED_MANIFEST_COLUMNS \ table.columns # {}
           THEN table.raised # ""
           ELSE /\ table.raised = ""
                /\ {table.df[j].index : j \in 1..Len(table.df)} = NonEmpty
                /\ \A j, k \in 1..Len(table.df) :
                      j < k => table.df[j].index < table.df[k].index

Built == table.pc = "built"
Plan == 1..Len(table.plan)
\* the row of the frame a row of the plan was made from
RowOf(j) == table.df[j]

\* C32: the destination depends on (rid, specnum_formatted) only: two rows
\* with the same pair get the same destination whatever their other columns;
\* build_source_dest_df yields one destination per row of the manifest, in
\* manifest order, each under the svs directory of the output directory and
\* ending in .svs.
C32_DestinationOfPair ==
    Built
        => /\ Len(table.plan) = Len(table.df)
           /\ \A j \in Plan :
                 /\ table.plan[j].index = RowOf(j).index
                 /\ table.plan[j].source = RowOf(j).location
                 /\ table.plan[j].destination.parent = <<OutDir, "svs">>
                 /\ table.plan[j].destination.name.suffix = ".svs"
           /\ \A j, k \in Plan :
                 (/\ RowOf(j).rid = RowOf(k).rid
                  /\ RowOf(j).specnum_formatted = RowOf(k).specnum_formatted)
                    => table.plan[j].destination = table.plan[k].destination

\* two rows with the same pair and different stains and locations
C32_Witness ==
    /\ Built
    /\ Len(table.plan) = 2
    /\ RowOf(1).rid = RowOf(2).rid
    /\ RowOf(1).specnum_formatted = RowOf(2).specnum_formatted
    /\ RowOf(1).stain # RowOf(2).stain
    /\ RowOf(1).location # RowOf(2).location

\* ===================================================================
\* C33 .. C34: the first page, and the two removals of the worker
\* ===================================================================
\* no IFD of the chain holds the offset of the picked page in its next pointer
Unpointed ==
    PointingTo(last.before, PageOffsets(last.before), Target) = <<>>
FirstPage(f) == PageOffsets(f)[1]
\* the file offsets of the first page: strips, out-of-line values and IFD,
\* the next pointer of the IFD left out
FirstPageBytes(f) ==
    ((IF Striped(f, FirstPage(f)) THEN StripBytesOf(f, FirstPage(f)) ELSE {})
        \cup ValueBytesOf(f, FirstPage(f))
        \cup IfdBytesOf(f, FirstPage(f)))
    \ (NextIfdOffset(f, FirstPage(f))
          ..(NextIfdOffset(f, FirstPage(f)) + OffsetSize - 1))

\* C33: when no IFD of the chain stores a next pointer equal to the offset of
\* the picked page (the picked page is the first page of the file),
\* delete_associated_image fails and has written no byte of the file; so the
\* first page of a file is never zeroed and never taken out of the chain.
C33_FirstPageStays ==
    /\ (OnePicked /\ Unpointed)
          => Raised(last.out) /\ last.after = last.before
    /\ Called
          => /\ PageOffsets(last.after) # <<>>
             /\ FirstPage(last.after) = FirstPage(last.before)
             /\ \A b \in FirstPageBytes(last.before) :
                   last.after[b + 1] = last.before[b + 1]

\* the page picked was the first page of the file, and the call failed
C33_Witness ==
    /\ OnePicked /\ Unpointed
    /\ Target = FirstPage(last.before)
    /\ Striped(last.before, Target)
    /\ last.out = "no_predecessor"

\* the pages of the source file, and their number
SourcePages == PageOffsets(slide)
\* the worker has made its second call of delete_associated_image, the one
\* for the macro, on a copy of a GT450 file of three pages or more whose last
\* two pages are striped
BothCalled ==
    /\ Called /\ repeats = 0 /\ last.image_type = "macro"
    /\ IsGT450(slide)
    /\ Len(SourcePages) >= 3
    /\ Striped(slide, SourcePages[Len(SourcePages) - 1])
    /\ Striped(slide, SourcePages[Len(SourcePages)])

\* C34: on a GT450 file of n >= 3 pages whose last two pages are striped, the
\* removal of the label followed by the removal of the macro removes the page
\* that was second to last and the page that was last: the chain of
\* directories afterwards is the first n - 2 pages in their order.
C34_LastTwoRemoved ==
    BothCalled
        => LET n == Len(SourcePages) IN
           /\ PageOffsets(last.before)
                 = SubSeq(SourcePages, 1, n - 2) \o <<SourcePages[n]>>
           /\ last.out = "removed"
           /\ Target = SourcePages[n]
           /\ PageOffsets(last.after) = SubSeq(SourcePages, 1, n - 2)

\* both removals were made
C34_Witness ==
    /\ BothCalled
    /\ last.out = "removed"
    /\ Len(PageOffsets(last.after)) = Len(SourcePages) - 2

\* ===================================================================
\* C35: screen_filename in rewrite mode
\* ===================================================================
\* where the key stands in a description
KeyAt(text, key) == {n \in 1..Len(text) : text[n] = key}
\* the pages whose description has one Filename fragment and one ImageID
\* fragment, with different values, before the call
Mismatched ==
    {o \in {PageOffsets(report.before)[n] :
              n \in 1..Len(PageOffsets(report.before))} :
        LET text == DescriptionText(report.before, o) IN
        /\ Cardinality(KeyAt(text, FilenameText)) = 1
        /\ Cardinality(KeyAt(text, ImageIDText)) = 1
        /\ ValueOf(text, FilenameText) # ValueOf(text, ImageIDText)}
Rewriting == report.called /\ ~report.validate_mode

\* C35: in rewrite mode, on a page whose description has one Filename
\* fragment and one ImageID fragment with different values, screen_filename
\* leaves the Filename value equal to the ImageID value, whichever of the two
\* fragments comes first, and leaves the ImageID fragment and every other
\* fragment as they were.
C35_FilenameBecomesImageID ==
    Rewriting
        => \A o \in Mismatched :
              LET b == DescriptionText(report.before, o)
                  a == DescriptionText(report.after, o)
                  fn == CHOOSE n \in 1..Len(b) : b[n] = FilenameText
              IN  /\ Len(a) = Len(b)
                  /\ a[fn + 1] = ValueOf(b, ImageIDText)
                  /\ \A n \in (1..Len(b)) \ {fn + 1} : a[n] = b[n]

\* ===================================================================
\* C36: two calls of copy_and_strip at once
\* ===================================================================
\* the call has settled on the name it copies to
Settled(t) == race.at[t].pc \in {"copy", "label", "macro", "except", "done"}

\* C36: when two calls of copy_and_strip run at the same time with the same
\* requested destination, they never both copy to the same path: the paths
\* they report are distinct, and neither writes to (overwrites, redacts) the
\* file the other is working on.
C36_CopiesApart ==
    /\ \A t, u \in DOMAIN race.at :
          (t # u /\ Settled(t) /\ Settled(u))
             => race.at[t].newname # race.at[u].newname
    /\ \A k \in DOMAIN race.fs : Cardinality(race.fs[k].hands) <= 1

\* ===================================================================
\* C37: a success record names a file that is there
\* ===================================================================
\* a non-dry run without remote target has just completed
LocalRunCompleted ==
    RunCompleted /\ ~touched /\ cfg.s3_bucket = NoBucket /\ ~cfg.dry_run
\* the destinations of the persisted StatusRecords with status success
SuccessDestinations ==
    {Persisted(status_csv)[j].destination :
        j \in WithStatus(Persisted(status_csv), TRUE)}

\* C37: at the end of any completed non-dry run with no remote target, every
\* StatusRecord with status success names a destination file that exists
\* locally at that moment, also when the run is resumed and the local file of
\* a previously successful pair was removed between the runs.
C37_SuccessFilesExist ==
    LocalRunCompleted => SuccessDestinations \subseteq files

\* a resumed run that found a prior success whose file had been removed has
\* completed with success records
C37_Witness ==
    /\ LocalRunCompleted
    /\ cfg.resume
    /\ start.touched
    /\ \E j \in WithStatus(_load_existing_status(start.status_csv), TRUE) :
          _load_existing_status(start.status_csv)[j].destination
             \notin start.files
    /\ SuccessDestinations # {}

\* ===================================================================
\* C38: what a persisted StatusRecord can look like
\* ===================================================================
\* the lines of the status file, as written
Written == IF status_csv.exists THEN status_csv.rows ELSE <<>>
\* the pair a record belongs to: its destination is the planned one or the
\* planned one with a suffix
PairOfRecord(r) == r.destination[1]

\* C38: in every status file persisted by a non-dry run, after any sequence of
\* runs: a record with status failed has an empty checksum, an empty remote
\* URI, local_deleted "no" and an upload status other than uploaded; a record
\* with upload status uploaded has status success and a non-empty remote URI;
\* and the records are in the relative order of their pairs in the manifest.
C38_RecordsWellFormed ==
    /\ \A j \in 1..Len(Written) :
          /\ Written[j].status = "failed"
                => /\ Written[j].md5 = ""
                   /\ Written[j].s3_uri = ""
                   /\ Written[j].local_deleted = "no"
                   /\ Written[j].upload_status # "uploaded"
          /\ Written[j].upload_status = "uploaded"
                => /\ Written[j].status = "success"
                   /\ Written[j].s3_uri # ""
    /\ \A j, k \in 1..Len(Written) :
          j < k => PairOfRecord(Written[j]) < PairOfRecord(Written[k])

\* the file a resumed run has written holds an uploaded record taken over
\* from the run before and, after it, the failed record of this run
C38_Witness ==
    /\ RunCompleted
    /\ runs > 1
    /\ cfg.resume
    /\ branch[2] = "worker"
    /\ branch[1] \in {"short_circuit", "remote_only"}
    /\ Len(Written) > 1
    /\ Written[1].upload_status = "uploaded"
    /\ Written[2].status = "failed"

\* ---------------------------------------------------------------------
\* Resumed runs, one after the other, over an output directory that starts
\* empty: no remote target, a cap of at least 1, every source readable and the
\* worker succeeding on it, nobody removing a file, no interruption.  The
\* manifest is short enough for the runs followed to get through it with a
\* cap of 1 and to be followed by one more run.
ConvergePairs == IF MaxPairs < MaxRuns THEN MaxPairs ELSE MaxRuns - 1

ConvergeConfigs ==
    {[resume |-> TRUE, s3_bucket |-> NoBucket, keep_local |-> TRUE,
      max_files |-> n, fail_fast |-> ff, dry_run |-> FALSE] :
        n \in 1..MaxPairs, ff \in BOOLEAN}

InitConverge ==
    /\ \E n \in 1..ConvergePairs : FirstStart(n)
    /\ source_exists = 1..manifest_len

\* deidentify_one returns a success
PairWorkerSucceeds == PairWorker /\ result'.status = "success"

NextConverge ==
    \/ \E c \in ConvergeConfigs : StartRun(c)
    \/ PairShortCircuit
    \/ PairDeferred
    \/ PairWorkerSucceeds
    \/ PairFinish
    \/ EndRun

\* a run that was started goes on to its end, and another run is started
SpecConverge ==
    InitConverge /\ [][NextConverge]_vars /\ WF_vars(NextConverge)

\* ===================================================================
\* C39: resumed runs converge
\* ===================================================================
\* the status file holds a success record for every pair of the manifest
AllRecorded ==
    \A p \in 1..manifest_len :
        \E j \in 1..Len(Written) :
            /\ Written[j].destination = Destination(p)
            /\ Written[j].status = "success"
\* a run has returned with such a final status
Converged == RunCompleted /\ AllRecorded
\* the pairs the worker is invoked for in this step
InvokedNow == worker_calls' \ worker_calls

\* C39: with a worker that succeeds on every pair, distinct destinations, no
\* remote target, no local file removed and a cap N >= 1, resumed runs that
\* start from an empty output directory eventually reach a run whose final
\* status holds a success record for every pair; the worker is invoked exactly
\* once per pair over the whole sequence (only for a pair whose redacted file
\* is not there yet, and the file is there from then on); and every later
\* resumed run invokes the worker for no pair and leaves the status records
\* as they are.
C39_ResumedRunsConverge ==
    /\ <>Converged
    /\ [][/\ \A p \in InvokedNow :
                Destination(p) \notin files /\ Destination(p) \in files'
          /\ files \subseteq files'
          /\ AllRecorded => (InvokedNow = {} /\ status_csv' = status_csv)]_vars

\* a run after the one that converged has returned: every pair was
\* short-circuited
C39_Witness ==
    /\ Converged
    /\ manifest_len > 1
    /\ worker_calls = {}
    /\ \A p \in 1..manifest_len : branch[p] = "short_circuit"

====
